---------------------------- MODULE Spec2Model ----------------------------
(***************************************************************************)
(* Model of the repository rule checker (system/todo/repo_rule_checker.py).*)
(*                                                                         *)
(* Python strings on which the code works character by character (paths,   *)
(* references, area directories, identifier values) are sequences of       *)
(* one-character strings.  Strings that are only compared for equality     *)
(* (dictionary keys, rule names, severities, statuses) are TLA+ strings.   *)
(***************************************************************************)
EXTENDS Integers, Sequences, FiniteSets, TLC

VARIABLES
    mi_file,        \* master_index.json on disk
    master_index,   \* self.master_index
    q_path,         \* argument of the last get_area_status call
    q_result,       \* outcome of the last get_area_status call
    checked_files,  \* self.checked_files: relative paths, in scan order
    file_content,   \* what is on disk under each scanned path
    id_registry,    \* self.id_registry: identifier value -> declaring file
    id_violations,  \* the list check_id_uniqueness builds and returns
    idx,            \* index in checked_files of the running for loop
    calls,          \* calls of check_id_uniqueness made on this checker
    exists,         \* the absolute paths that exist, each a sequence of names
    ref_violations, \* the list check_file_references builds and returns
    fs,             \* the directory tree under the repository root
    listing,        \* the order in which the file system lists entries
    structure,      \* what the last scan_repository_structure returned
    prev_structure, \* what the scan before it returned
    scanned_directories, \* self.scanned_directories
    scans,          \* calls of scan_repository_structure made so far
    file_text,      \* the lines of each .py file and the wording of README.md
    pep8_violations,     \* the list check_pep8_compliance returns
    language_violations, \* the list check_language_compliance returns
    results,        \* what run_all_checks returned
    first_run,      \* the id and reference violations of the run before
    ix_index,       \* update_master_index: master_index["areas"]
    ix_found,       \* update_master_index: found_areas
    ix_result,      \* update_master_index: the areas of the returned index
    ex_data,        \* _extract_ids_from_json: the parsed document
    ex_ids,         \* _extract_ids_from_json: the list it returned
    mv_tree,        \* validate_modular_structure: the three data files on disk
    mv_results,     \* validate_modular_structure: the results it returned
    pc              \* position of the caller

areaVars == <<mi_file, master_index, q_path, q_result>>
idVars == <<checked_files, file_content, id_registry, id_violations, idx, calls>>
refVars == <<exists, ref_violations>>
scanVars == <<fs, listing, structure, prev_structure, scanned_directories,
              scans>>
runVars == <<file_text, pep8_violations, language_violations, results, first_run>>
indexVars == <<ix_index, ix_found, ix_result>>
extractVars == <<ex_data, ex_ids>>
validatorVars == <<mv_tree, mv_results>>
otherVars == <<indexVars, extractVars, validatorVars>>
moreVars == <<scanVars, runVars, otherVars>>
vars == <<areaVars, idVars, refVars, moreVars, pc>>

-----------------------------------------------------------------------------
(* Bounds of the model *)

\* longest area list of a master index document
MaxAreas == 2

\* most files a scan has found
MaxFiles == 3

\* most calls of check_id_uniqueness on one checker
MaxCalls == 2

-----------------------------------------------------------------------------
(* Character strings *)

NoValue == <<"<", "n", "o", "n", "e", ">">>

\* str.startswith(prefix)
StartsWith(s, p) == Len(p) <= Len(s) /\ SubSeq(s, 1, Len(p)) = p

\* str.endswith(suffix)
EndsWith(s, p) == Len(p) <= Len(s) /\ SubSeq(s, Len(s) - Len(p) + 1, Len(s)) = p

\* sub in s
Contains(s, sub) ==
    \E i \in 1..(Len(s) - Len(sub) + 1) : SubSeq(s, i, i + Len(sub) - 1) = sub

\* least element of a set of integers
MinOf(S) == CHOOSE i \in S : \A j \in S : i <= j

\* str.rstrip('/')
RECURSIVE RStripSep(_)
RStripSep(s) ==
    IF s # <<>> /\ s[Len(s)] = "/" THEN RStripSep(SubSeq(s, 1, Len(s) - 1)) ELSE s

\* str.lstrip('/')
RECURSIVE LStripSep(_)
LStripSep(s) ==
    IF s # <<>> /\ s[1] = "/" THEN LStripSep(Tail(s)) ELSE s

-----------------------------------------------------------------------------
(* JSON values *)

\* A parsed JSON value.  t is its type; s the text of a string; n the value
\* of an integer (a boolean: 1 for true, 0 for false); kids the members of an
\* object, in the order of the document, as <<key, value>> records, or the
\* elements of an array (keys unused).
JStr(s) == [t |-> "str", s |-> s, n |-> 0, kids |-> <<>>]
JInt(n) == [t |-> "int", s |-> <<>>, n |-> n, kids |-> <<>>]
JBool(b) == [t |-> "bool", s |-> <<>>, n |-> IF b THEN 1 ELSE 0, kids |-> <<>>]
JFloat == [t |-> "float", s |-> <<>>, n |-> 0, kids |-> <<>>]
JNull == [t |-> "null", s |-> <<>>, n |-> 0, kids |-> <<>>]
JObj(kids) == [t |-> "obj", s |-> <<>>, n |-> 0, kids |-> kids]
JArr(items) ==
    [t |-> "arr", s |-> <<>>, n |-> 0,
     kids |-> [i \in 1..Len(items) |-> [k |-> "", v |-> items[i]]]]
KV(k, v) == [k |-> k, v |-> v]

\* field in data
HasKey(data, field) == \E i \in 1..Len(data.kids) : data.kids[i].k = field

\* data[field]
Get(data, field) ==
    data.kids[CHOOSE i \in 1..Len(data.kids) : data.kids[i].k = field].v

Digits == <<"0", "1", "2", "3", "4", "5", "6", "7", "8", "9">>

\* str(n) of an integer
RECURSIVE IntToStr(_)
IntToStr(n) ==
    IF n < 0 THEN <<"-">> \o IntToStr(0 - n)
    ELSE IF n < 10 THEN <<Digits[n + 1]>>
    ELSE IntToStr(n \div 10) \o <<Digits[(n % 10) + 1]>>

\* str(value) of a value that passed isinstance(value, (str, int))
PyStr(v) ==
    IF v.t = "str" THEN v.s
    ELSE IF v.t = "bool"
         THEN (IF v.n = 1 THEN <<"T", "r", "u", "e">>
                          ELSE <<"F", "a", "l", "s", "e">>)
         ELSE IntToStr(v.n)

\* concatenation of a sequence of sequences
RECURSIVE Flatten(_)
Flatten(ss) == IF ss = <<>> THEN <<>> ELSE Head(ss) \o Flatten(Tail(ss))

-----------------------------------------------------------------------------
(* Paths *)

\* the text after the last separator: Path.name
RECURSIVE BaseName(_)
BaseName(p) ==
    IF \E i \in 1..Len(p) : p[i] = "/"
    THEN BaseName(Tail(p))
    ELSE p

\* Path.suffix: the name from its last dot on, unless that dot is the first
\* or the last character of the name
Suffix(p) ==
    LET name == BaseName(RStripSep(p))
        dots == { i \in 1..Len(name) : name[i] = "." }
    IN  IF dots = {} THEN <<>>
        ELSE LET i == CHOOSE d \in dots : \A e \in dots : e <= d
             IN  IF 1 < i /\ i < Len(name) THEN SubSeq(name, i, Len(name))
                 ELSE <<>>

Upper == <<"A", "B", "C", "D", "E", "F", "G", "H", "I", "J", "K", "L", "M",
           "N", "O", "P", "Q", "R", "S", "T", "U", "V", "W", "X", "Y", "Z">>
LowerLetters ==
         <<"a", "b", "c", "d", "e", "f", "g", "h", "i", "j", "k", "l", "m",
           "n", "o", "p", "q", "r", "s", "t", "u", "v", "w", "x", "y", "z">>

\* str.lower()
Lower(s) ==
    [i \in 1..Len(s) |->
        IF \E j \in 1..Len(Upper) : Upper[j] = s[i]
        THEN LowerLetters[CHOOSE j \in 1..Len(Upper) : Upper[j] = s[i]]
        ELSE s[i]]

DotJson == <<".", "j", "s", "o", "n">>
DotMd == <<".", "m", "d">>

\* "system/todo/rule_check_results.json"
ReportFile ==
    <<"s", "y", "s", "t", "e", "m", "/", "t", "o", "d", "o", "/">>
    \o <<"r", "u", "l", "e", "_", "c", "h", "e", "c", "k", "_">>
    \o <<"r", "e", "s", "u", "l", "t", "s">> \o DotJson

-----------------------------------------------------------------------------
(* The ID Registry *)

\* What is on disk under a scanned path.  rd: whether open and read succeed
\* ("ok"), fail to decode ("bad_utf8": UnicodeDecodeError) or fail otherwise
\* ("io_error": any other exception).  For a .json file: template and slashes
\* say whether the raw text contains '"is_template": true' and '//', parses
\* whether it is JSON, doc its parsed value.  For a .md file: links are the
\* targets of its [label](target) links, in order.
Content(rd, template, slashes, parses, doc, links) ==
    [rd |-> rd, template |-> template, slashes |-> slashes,
     parses |-> parses, doc |-> doc, links |-> links]

\* id_fields
IdFields == <<"id", "key", "actor_id", "faction_id", "item_id", "event_id",
              "mission_id">>

\* isinstance(value, (str, int)): bool is a subclass of int
IsStrOrInt(v) == v.t \in {"str", "int", "bool"}

\* _extract_ids_from_json(data, file_path)
RECURSIVE ExtractIds(_)
ExtractIds(data) ==
    IF data.t = "obj"
    THEN LET own == [i \in 1..Len(IdFields) |->
                       IF HasKey(data, IdFields[i])
                          /\ IsStrOrInt(Get(data, IdFields[i]))
                       THEN <<PyStr(Get(data, IdFields[i]))>>
                       ELSE <<>>]
             nested == [i \in 1..Len(data.kids) |-> ExtractIds(data.kids[i].v)]
         IN  Flatten(own) \o Flatten(nested)
    ELSE IF data.t = "arr"
    THEN Flatten([i \in 1..Len(data.kids) |-> ExtractIds(data.kids[i].v)])
    ELSE <<>>

\* a violation; keys a violation does not carry hold NoValue
Violation(rule, type, severity, file, other_file, id) ==
    [rule |-> rule, type |-> type, severity |-> severity, file |-> file,
     other_file |-> other_file, id |-> id]

DuplicateId(file_info, other_file, id_value) ==
    Violation("id_management", "duplicate_id", "high", file_info, other_file,
              id_value)

FileReadError(file_info) ==
    Violation("id_management", "file_read_error", "medium", file_info,
              NoValue, NoValue)

\* the state of check_id_uniqueness: the registry and the violation list
IdState(reg, viol) == [reg |-> reg, viol |-> viol]

\* the body of "for id_value in ids_in_file"
RegisterId_Overwrite(st, id_value, file_info) ==
    IF id_value \in DOMAIN st.reg
    THEN IdState((id_value :> file_info) @@ st.reg,
                 Append(st.viol,
                        DuplicateId(file_info, st.reg[id_value], id_value)))
    ELSE IdState((id_value :> file_info) @@ st.reg, st.viol)

RegisterId_NoInsert(st, id_value, file_info) ==
    IF id_value \in DOMAIN st.reg
    THEN IdState(st.reg,
                 Append(st.viol,
                        DuplicateId(file_info, st.reg[id_value], id_value)))
    ELSE st

RegisterId(st, id_value, file_info) ==
    IF id_value \in DOMAIN st.reg
    THEN IdState(st.reg,
                 Append(st.viol,
                        DuplicateId(file_info, st.reg[id_value], id_value)))
    ELSE IdState((id_value :> file_info) @@ st.reg, st.viol)

\* "for id_value in ids_in_file", from position i on
RECURSIVE RegisterIds(_, _, _, _)
RegisterIds(st, ids, i, file_info) ==
    IF i > Len(ids) THEN st
    ELSE RegisterIds(RegisterId(st, ids[i], file_info), ids, i + 1, file_info)

\* if file_info == "system/todo/rule_check_results.json": continue
IsReportFile_Never(file_info) == FALSE

IsReportFile(file_info) == file_info = ReportFile

\* file_path.suffix.lower() == '.json'
IsJsonFile(file_info) == Lower(Suffix(file_info)) = DotJson

\* one iteration of "for file_info in self.checked_files" in
\* check_id_uniqueness
IdCheckStep_ReportsParseFailure(st, file_info, c) ==
    IF IsReportFile(file_info) THEN st
    ELSE IF ~IsJsonFile(file_info) THEN st
    ELSE IF c.rd # "ok" \/ ~c.parses
         THEN IdState(st.reg, Append(st.viol, FileReadError(file_info)))
    ELSE RegisterIds(st, ExtractIds(c.doc), 1, file_info)

IdCheckStep(st, file_info, c) ==
    IF IsReportFile(file_info) THEN st
    ELSE IF ~IsJsonFile(file_info) THEN st
    ELSE IF c.rd = "io_error"
         THEN IdState(st.reg, Append(st.viol, FileReadError(file_info)))
    ELSE IF c.rd = "bad_utf8" \/ ~c.parses THEN st
    ELSE RegisterIds(st, ExtractIds(c.doc), 1, file_info)

\* RuleChecker.__init__ leaves the checker with no file scanned and an empty
\* registry
EmptyMap == [x \in {} |-> <<>>]

IdleIdCheck ==
    /\ checked_files = <<>>
    /\ file_content = EmptyMap
    /\ id_registry = EmptyMap
    /\ id_violations = <<>>
    /\ idx = 0
    /\ calls = 0

-----------------------------------------------------------------------------
(* The area registry document and the Area Status Oracle *)

\* An entry of the "areas" list: a JSON object whose "dir" and "status" keys
\* may be absent.
Area(hasDir, dir, hasStatus, status) ==
    [hasDir |-> hasDir, dir |-> dir, hasStatus |-> hasStatus, status |-> status]

\* A parsed master index: a JSON object.  nonempty: it has at least one key;
\* hasAreas: it has the key "areas"; areasKind: the JSON type of its value.
MasterIndex(nonempty, hasAreas, areasKind, areas) ==
    [nonempty |-> nonempty, hasAreas |-> hasAreas,
     areasKind |-> areasKind, areas |-> areas]

\* {}
EmptyDict == MasterIndex(FALSE, FALSE, "none", <<>>)

\* load_master_index: FileNotFoundError and JSONDecodeError both give {}
LoadMasterIndex(f) ==
    IF f.state = "valid" THEN f.content ELSE EmptyDict

\* outcome of a call: a returned value or a raised exception
Returned(v) == [raised |-> FALSE, value |-> v]
Raised(e) == [raised |-> TRUE, value |-> e]

\* normalized_path = path.rstrip('/') + '/'
NormalizePath(path) == RStripSep(path) \o <<"/">>

\* area.get('dir', '')
AreaDir(area) == IF area.hasDir THEN area.dir ELSE <<>>

\* area.get('status', 'unknown')
AreaStatus(area) == IF area.hasStatus THEN area.status ELSE "unknown"

\* the condition of the if statement in the loop of get_area_status
AreaMatches_OneWay(normalized_path, area) ==
    StartsWith(normalized_path, AreaDir(area))

AreaMatches(normalized_path, area) ==
    \/ StartsWith(normalized_path, AreaDir(area))
    \/ StartsWith(AreaDir(area), normalized_path)

\* the for loop of get_area_status, from entry i on
RECURSIVE ScanAreas(_, _, _)
ScanAreas(areas, i, normalized_path) ==
    IF i > Len(areas) THEN Returned("unknown")
    ELSE IF AreaMatches(normalized_path, areas[i])
         THEN Returned(AreaStatus(areas[i]))
         ELSE ScanAreas(areas, i + 1, normalized_path)

\* get_area_status(path)
GetAreaStatus(mi, path) ==
    IF ~mi.nonempty \/ ~mi.hasAreas THEN Returned("unknown")
    ELSE IF mi.areasKind # "list" THEN Raised("TypeError")
    ELSE ScanAreas(mi.areas, 1, NormalizePath(path))

-----------------------------------------------------------------------------
(* The Cross-Reference Resolver *)

\* the names of a path string: its parts between separators; empty parts
\* and "." are dropped, as pathlib does (".." is kept by pathlib and left to
\* the file system; no path of the inputs holds one)
RECURSIVE Segments(_)
Segments(p) ==
    IF p = <<>> THEN <<>>
    ELSE IF Head(p) = "/" THEN Segments(Tail(p))
    ELSE LET seps == {i \in 1..Len(p) : p[i] = "/"}
             n == IF seps = {} THEN Len(p) + 1 ELSE MinOf(seps)
             name == SubSeq(p, 1, n - 1)
             rest == SubSeq(p, n, Len(p))
         IN  (IF name = <<".">> THEN <<>> ELSE <<name>>) \o Segments(rest)

\* self.repo_root: the absolute path /r
RepoRoot == << <<"r">> >>

\* base / text of pathlib: an absolute text replaces the base
JoinPath(base, text) ==
    IF StartsWith(text, <<"/">>) THEN Segments(text) ELSE base \o Segments(text)

\* Path.parent
Parent(path) == SubSeq(path, 1, Len(path) - 1)

\* Path.exists()
PathExists(path) == path \in exists

\* file_fields
FileFields == <<"index", "file", "path", "dir", "icon", "image", "script">>

RefExtensions == { DotJson, DotMd, <<".", "p", "y">>, <<".", "t", "x", "t">>,
                   <<".", "p", "n", "g">>, <<".", "j", "p", "g">> }

\* '/' in ref or ref.endswith(('.json', '.md', '.py', '.txt', '.png', '.jpg'))
LooksLikePath(ref) ==
    Contains(ref, <<"/">>) \/ \E e \in RefExtensions : EndsWith(ref, e)

\* _extract_file_references(data)
RECURSIVE ExtractFileReferences(_)
ExtractFileReferences(data) ==
    IF data.t = "obj"
    THEN LET own == [i \in 1..Len(FileFields) |->
                       IF /\ HasKey(data, FileFields[i])
                          /\ Get(data, FileFields[i]).t = "str"
                          /\ LooksLikePath(Get(data, FileFields[i]).s)
                       THEN <<Get(data, FileFields[i]).s>>
                       ELSE <<>>]
             nested == [i \in 1..Len(data.kids) |->
                          ExtractFileReferences(data.kids[i].v)]
         IN  Flatten(own) \o Flatten(nested)
    ELSE IF data.t = "arr"
    THEN Flatten([i \in 1..Len(data.kids) |->
                    ExtractFileReferences(data.kids[i].v)])
    ELSE <<>>

\* a violation of check_file_references; suffix: the message carries the
\* " (area marked as ... in master_index.json)" suffix
RefViolation(type, severity, file, reference, area_status, suffix) ==
    [rule |-> "crossref_redundancy_check", type |-> type,
     severity |-> severity, file |-> file, reference |-> reference,
     area_status |-> area_status, suffix |-> suffix]

FileAnalysisError(file_info) ==
    RefViolation("file_analysis_error", "low", file_info, NoValue, "", FALSE)

\* '{{' in ref and '}}' in ref
IsPlaceholder(ref) ==
    Contains(ref, <<"{", "{">>) /\ Contains(ref, <<"}", "}">>)

\* the path a reference of a .json file is looked up at
JsonRefPath(ref, file_info) ==
    IF StartsWith(ref, <<"/">>)
    THEN JoinPath(RepoRoot, LStripSep(ref))
    ELSE JoinPath(Parent(JoinPath(RepoRoot, file_info)), ref)

\* the severity of a broken reference of a .json file
BrokenRefSeverity_NotActive(area_status) ==
    IF area_status = "active" THEN "high" ELSE "low"

BrokenRefSeverity(area_status) ==
    IF area_status = "inactive" THEN "low" ELSE "high"

\* the path whose area status decides the severity: the reference as written
OracleArgument_File(ref, file_info) == file_info

OracleArgument(ref, file_info) == ref

\* the outcome of a loop over references: the violations so far, and whether
\* an exception left the loop
Loop(viol, raised) == [viol |-> viol, raised |-> raised]

\* "for ref in references" of a .json file, from position i on
RECURSIVE JsonRefLoop(_, _, _, _)
JsonRefLoop(viol, refs, i, file_info) ==
    IF i > Len(refs) THEN Loop(viol, FALSE)
    ELSE IF IsPlaceholder(refs[i]) THEN JsonRefLoop(viol, refs, i + 1, file_info)
    ELSE IF PathExists(JsonRefPath(refs[i], file_info))
         THEN JsonRefLoop(viol, refs, i + 1, file_info)
    ELSE LET r == GetAreaStatus(master_index,
                                OracleArgument(refs[i], file_info))
         IN  IF r.raised THEN Loop(viol, TRUE)
             ELSE JsonRefLoop(
                    Append(viol,
                           RefViolation("broken_file_reference",
                                        BrokenRefSeverity(r.value), file_info,
                                        refs[i], r.value,
                                        r.value = "inactive")),
                    refs, i + 1, file_info)

Http == <<"h", "t", "t", "p", ":", "/", "/">>
Https == <<"h", "t", "t", "p", "s", ":", "/", "/">>

\* ref.startswith(('http://', 'https://', '#'))
IsExemptLink_NoAnchor(ref) ==
    StartsWith(ref, Http) \/ StartsWith(ref, Https)

IsExemptLink(ref) ==
    StartsWith(ref, Http) \/ StartsWith(ref, Https) \/ StartsWith(ref, <<"#">>)

\* the path a link target of a .md file is looked up at: self.repo_root / ref
MdRefPath(ref) == JoinPath(RepoRoot, ref)

\* "for ref in md_references", from position i on
RECURSIVE MdRefLoop(_, _, _, _)
MdRefLoop(viol, links, i, file_info) ==
    IF i > Len(links) THEN viol
    ELSE IF ~IsExemptLink(links[i]) /\ ~PathExists(MdRefPath(links[i]))
         THEN MdRefLoop(
                Append(viol,
                       RefViolation("broken_markdown_reference", "medium",
                                    file_info, links[i], "", FALSE)),
                links, i + 1, file_info)
    ELSE MdRefLoop(viol, links, i + 1, file_info)

\* '"is_template": true' in content_text and '//' in content_text
IsTemplateFile_NoComment(c) == c.template /\ ~c.slashes

IsTemplateFile(c) == c.template /\ c.slashes

\* file_path.suffix.lower() == '.md'
IsMdFile(file_info) == Lower(Suffix(file_info)) = DotMd

\* one iteration of "for file_info in self.checked_files" in
\* check_file_references
RefCheckStep(viol, file_info, c) ==
    IF IsReportFile(file_info) THEN viol
    ELSE IF IsJsonFile(file_info)
    THEN IF c.rd # "ok" THEN Append(viol, FileAnalysisError(file_info))
         ELSE IF IsTemplateFile(c) THEN viol
         ELSE IF ~c.parses THEN viol
         ELSE LET r == JsonRefLoop(viol, ExtractFileReferences(c.doc), 1,
                                   file_info)
              IN  IF r.raised
                  THEN Append(r.viol, FileAnalysisError(file_info))
                  ELSE r.viol
    ELSE IF IsMdFile(file_info)
    THEN IF c.rd # "ok" THEN Append(viol, FileAnalysisError(file_info))
         ELSE MdRefLoop(viol, c.links, 1, file_info)
    ELSE viol

IdleRefCheck ==
    /\ exists = {}
    /\ ref_violations = <<>>

-----------------------------------------------------------------------------
(* The Tree Walker *)

\* An entry of the directory tree.  path: its names below the repository
\* root (the root itself has the empty path); kind: "dir" and "file" are what
\* is_dir() and is_file() answer True for, "other" is answered False by both
\* (a socket, a dangling link), "noaccess" is an entry whose stat() raises
\* PermissionError (a link into a directory that may not be searched);
\* listable: for a directory, whether iterating it succeeds, or raises
\* PermissionError.
Node(path, kind, listable) ==
    [path |-> path, kind |-> kind, listable |-> listable]

\* str(item.relative_to(self.repo_root)): the names joined by separators
RECURSIVE RelPath(_)
RelPath(path) ==
    IF path = <<>> THEN <<".">>
    ELSE IF Len(path) = 1 THEN path[1]
    ELSE path[1] \o <<"/">> \o RelPath(Tail(path))

\* excluded_dirs
ExcludedDirs ==
    { <<".", "g", "i", "t">>, <<".", "g", "i", "t", "h", "u", "b">>,
      <<"_", "_", "p", "y", "c", "a", "c", "h", "e", "_", "_">>,
      <<".", "p", "y", "t", "e", "s", "t", "_", "c", "a", "c", "h", "e">>,
      <<"n", "o", "d", "e", "_", "m", "o", "d", "u", "l", "e", "s">>,
      <<".", "v", "e", "n", "v">>, <<"v", "e", "n", "v">>, <<"e", "n", "v">>,
      <<".", "i", "d", "e", "a">>, <<".", "v", "s", "c", "o", "d", "e">> }

\* item.name not in excluded_dirs and not item.name.startswith('.')
IsScannedDir_NotHidden(name) == name \notin ExcludedDirs

IsScannedDir(name) ==
    name \notin ExcludedDirs /\ ~StartsWith(name, <<".">>)

\* current_path.iterdir(): the entries of the directory at path, in the order
\* the file system lists them
InOrder(tree, order, path) ==
    [i \in 1..Len(order[path]) |->
        CHOOSE n \in tree : n.path = order[path][i]]

\* The directory a path names once the system has followed its symbolic
\* links.  A link of the trees of this model points at the directory that
\* holds it (ln -s . k), an ancestor of everything reached through it.
RECURSIVE Resolve(_, _)
Resolve(tree, path) ==
    IF path = <<>> THEN <<>>
    ELSE LET above == Resolve(tree, SubSeq(path, 1, Len(path) - 1))
             here == Append(above, path[Len(path)])
         IN  IF \E n \in tree : n.path = here /\ n.kind = "link"
             THEN above
             ELSE here

\* the number of symbolic links the system follows to resolve a path
RECURSIVE LinksIn(_, _)
LinksIn(tree, path) ==
    IF path = <<>> THEN 0
    ELSE LET front == SubSeq(path, 1, Len(path) - 1)
             here == Append(Resolve(tree, front), path[Len(path)])
         IN  LinksIn(tree, front)
             + (IF \E n \in tree : n.path = here /\ n.kind = "link"
                THEN 1 ELSE 0)

\* the most symbolic links the system follows in one path; beyond it stat()
\* fails with ELOOP, which is_dir() and is_file() answer with False (40 on
\* Linux)
SymlinkLimit == 2

\* item.is_dir() and item.is_file() follow symbolic links: a link is a
\* directory like its target while the system resolves the path, and neither
\* a directory nor a file beyond that
Followed(tree, item) ==
    IF item.kind # "link" THEN item
    ELSE IF LinksIn(tree, item.path) > SymlinkLimit
    THEN [item EXCEPT !.kind = "other"]
    ELSE LET target == CHOOSE n \in tree : n.path = Resolve(tree, item.path)
         IN  [item EXCEPT !.kind = "dir", !.listable = target.listable]

\* the items of "for item in current_path.iterdir()": the entries of the
\* directory current_path resolves to, each under the path it was reached by
Entries(tree, order, path) ==
    LET items == InOrder(tree, order, Resolve(tree, path))
    IN  [i \in 1..Len(items) |->
           [items[i] EXCEPT !.path =
               Append(path, items[i].path[Len(items[i].path)])]]

\* structure, self.scanned_directories and self.checked_files during a scan
ScanState(total_files, total_directories, file_types, files, dirs, checked) ==
    [total_files |-> total_files, total_directories |-> total_directories,
     file_types |-> file_types, files |-> files, dirs |-> dirs,
     checked |-> checked]

\* dir_info
DirInfo(name, path, subdirectories, files) ==
    [name |-> name, path |-> path, subdirectories |-> subdirectories,
     files |-> files]

\* file_info (size and modification time are not modelled)
FileInfo(name, path, extension) ==
    [name |-> name, path |-> path, extension |-> extension]

\* the branch of scan_directory's loop for a file
RecordFile_NotChecked(st, item) ==
    LET name == item.path[Len(item.path)]
        file_ext == Lower(Suffix(name))
        info == FileInfo(name, RelPath(item.path), file_ext)
    IN  [st EXCEPT !.total_files = @ + 1,
                   !.file_types =
                       IF file_ext \in DOMAIN @
                       THEN [@ EXCEPT ![file_ext] = @ + 1]
                       ELSE (file_ext :> 1) @@ @,
                   !.files = Append(@, info)]

RecordFile(st, item) ==
    LET name == item.path[Len(item.path)]
        file_ext == Lower(Suffix(name))
        info == FileInfo(name, RelPath(item.path), file_ext)
    IN  [st EXCEPT !.total_files = @ + 1,
                   !.file_types =
                       IF file_ext \in DOMAIN @
                       THEN [@ EXCEPT ![file_ext] = @ + 1]
                       ELSE (file_ext :> 1) @@ @,
                   !.files = Append(@, info),
                   !.checked = Append(@, RelPath(item.path))]

\* what a call of scan_directory hands back: the state, the dir_info, and
\* whether an exception left the call
Scanned(st, dir_info, raised) ==
    [st |-> st, dir_info |-> dir_info, raised |-> raised]

\* except PermissionError: the warning is printed and dir_info is returned as
\* far as it was built
OnPermissionError_Propagate(st, dir_info) == Scanned(st, dir_info, TRUE)

OnPermissionError(st, dir_info) == Scanned(st, dir_info, FALSE)

\* scan_directory(current_path, relative_path), and its loop from item i on
RECURSIVE ScanDirectory(_, _, _, _)
RECURSIVE ScanItems(_, _, _, _, _, _)
ScanDirectory(tree, order, st, dir) ==
    LET name == IF dir.path = <<>> THEN <<"r">> ELSE dir.path[Len(dir.path)]
        rel == IF dir.path = <<>> THEN <<>> ELSE RelPath(dir.path)
        dir_info == DirInfo(name, rel, [x \in {} |-> <<>>], <<>>)
    IN  IF ~dir.listable THEN OnPermissionError(st, dir_info)
        ELSE ScanItems(tree, order, st, Entries(tree, order, dir.path), 1,
                       dir_info)

ScanItems(tree, order, st, items, i, dir_info) ==
    IF i > Len(items) THEN Scanned(st, dir_info, FALSE)
    ELSE LET item == Followed(tree, items[i])
             name == item.path[Len(item.path)]
         IN  IF item.kind = "noaccess" THEN OnPermissionError(st, dir_info)
             ELSE IF item.kind = "dir"
             THEN IF IsScannedDir(name)
                  THEN LET sub == ScanDirectory(
                                    tree, order,
                                    [st EXCEPT !.total_directories = @ + 1,
                                               !.dirs = Append(@, RelPath(item.path))],
                                    item)
                       IN  IF sub.raised
                           THEN OnPermissionError(sub.st, dir_info)
                           ELSE ScanItems(
                                  tree, order, sub.st, items, i + 1,
                                  [dir_info EXCEPT !.subdirectories =
                                      (name :> sub.dir_info) @@ @])
                  ELSE ScanItems(tree, order, st, items, i + 1, dir_info)
             ELSE IF item.kind = "file"
             THEN ScanItems(tree, order, RecordFile(st, item), items, i + 1,
                            [dir_info EXCEPT !.files =
                                Append(@, FileInfo(name, RelPath(item.path),
                                                   Lower(Suffix(name))))])
             ELSE ScanItems(tree, order, st, items, i + 1, dir_info)

\* structure = {...} as scan_repository_structure sets it up
Structure(total_files, total_directories, file_types, directory_tree, files) ==
    [total_files |-> total_files, total_directories |-> total_directories,
     file_types |-> file_types, directory_tree |-> directory_tree,
     files |-> files]

EmptyStructure == Structure(0, 0, [x \in {} |-> 0], [x \in {} |-> <<>>], <<>>)

\* the root of the tree
RootOf(tree) == CHOOSE n \in tree : n.path = <<>>

\* scan_repository_structure() on a checker whose lists hold dirs and checked
ScanRepositoryStructure(tree, order, dirs, checked) ==
    ScanDirectory(tree, order,
                  ScanState(0, 0, [x \in {} |-> 0], <<>>, dirs, checked),
                  RootOf(tree))

\* the structure a scan returns
StructureOf(r) ==
    Structure(r.st.total_files, r.st.total_directories, r.st.file_types,
              r.dir_info, r.st.files)

-----------------------------------------------------------------------------
(* The style and language checks *)

DotPy == <<".", "p", "y">>

\* "README.md"
ReadmeMd == <<"R", "E", "A", "D", "M", "E">> \o DotMd

\* A line of a .py file: whether len(line.rstrip()) > 79, whether it holds a
\* tab, whether it ends in a blank before the line end.
Line(long, tab, trailing) == [long |-> long, tab |-> tab, trailing |-> trailing]

\* What the style and language checks read in a file: the lines of a .py
\* file; for README.md whether one of english_terms occurs in the lowered
\* text and whether the text has more than 100 characters.
Text(lines, english, over100) ==
    [lines |-> lines, english |-> english, over100 |-> over100]

PepViolation(type, severity, file, line) ==
    [rule |-> "pep8_compliance", type |-> type, severity |-> severity,
     file |-> file, line |-> line]

\* the three tests of one line, in the order of the code
Pep8Line(viol, file_info, line_num, line) ==
    LET v1 == IF line.long
              THEN Append(viol, PepViolation("line_too_long", "low",
                                             file_info, line_num))
              ELSE viol
        v2 == IF line.tab
              THEN Append(v1, PepViolation("tab_usage", "medium", file_info,
                                           line_num))
              ELSE v1
    IN  IF line.trailing
        THEN Append(v2, PepViolation("trailing_whitespace", "low", file_info,
                                     line_num))
        ELSE v2

\* "for line_num, line in enumerate(lines, 1)", from line i on
RECURSIVE Pep8Lines(_, _, _, _)
Pep8Lines(viol, file_info, lines, i) ==
    IF i > Len(lines) THEN viol
    ELSE Pep8Lines(Pep8Line(viol, file_info, i, lines[i]), file_info, lines,
                   i + 1)

IsPyFile(file_info) == Lower(Suffix(file_info)) = DotPy

\* one iteration of the loop of check_pep8_compliance
Pep8CheckStep(viol, file_info, c, t) ==
    IF ~IsPyFile(file_info) THEN viol
    ELSE IF c.rd # "ok"
         THEN Append(viol, [rule |-> "pep8_compliance",
                            type |-> "file_analysis_error",
                            severity |-> "low", file |-> file_info])
    ELSE Pep8Lines(viol, file_info, t.lines, 1)

\* one iteration of the loop of check_language_compliance
LanguageCheckStep(viol, file_info, c, t) ==
    IF file_info # ReadmeMd THEN viol
    ELSE IF c.rd # "ok" THEN viol
    ELSE IF ~t.english /\ t.over100
         THEN Append(viol, [rule |-> "language_en",
                            type |-> "missing_english_documentation",
                            severity |-> "low", file |-> file_info])
    ELSE viol

-----------------------------------------------------------------------------
(* The Violation Aggregator: run_all_checks *)

\* check_id_uniqueness(): the loop over self.checked_files, from file i on
RECURSIVE CheckIdUniqueness(_, _, _, _)
CheckIdUniqueness(st, files, i, contents) ==
    IF i > Len(files) THEN st
    ELSE CheckIdUniqueness(IdCheckStep(st, files[i], contents[files[i]]),
                           files, i + 1, contents)

\* check_file_references(): the loop over self.checked_files, from file i on
RECURSIVE CheckFileReferences(_, _, _, _)
CheckFileReferences(viol, files, i, contents) ==
    IF i > Len(files) THEN viol
    ELSE CheckFileReferences(RefCheckStep(viol, files[i], contents[files[i]]),
                             files, i + 1, contents)

\* check_pep8_compliance()
RECURSIVE CheckPep8Compliance(_, _, _, _, _)
CheckPep8Compliance(viol, files, i, contents, texts) ==
    IF i > Len(files) THEN viol
    ELSE CheckPep8Compliance(
           Pep8CheckStep(viol, files[i], contents[files[i]], texts[files[i]]),
           files, i + 1, contents, texts)

\* check_language_compliance()
RECURSIVE CheckLanguageCompliance(_, _, _, _, _)
CheckLanguageCompliance(viol, files, i, contents, texts) ==
    IF i > Len(files) THEN viol
    ELSE CheckLanguageCompliance(
           LanguageCheckStep(viol, files[i], contents[files[i]],
                             texts[files[i]]),
           files, i + 1, contents, texts)

\* violation.get(key, 'unknown')
GetOr(violation, key) ==
    IF key \in DOMAIN violation THEN violation[key] ELSE "unknown"

\* {'total': 0, 'high': 0, 'medium': 0, 'low': 0}
ZeroCounts == [k \in {"total", "high", "medium", "low"} |-> 0]

\* the body of "for violation in all_violations": the counts of the rule are
\* created on first sight, total and the severity's count go up by one, and a
\* severity that is no key of the counts raises KeyError
TallyAdd_TotalOnly(summary, violation) ==
    LET rule == GetOr(violation, "rule")
        s1 == IF rule \in DOMAIN summary THEN summary
              ELSE (rule :> ZeroCounts) @@ summary
    IN  Returned([s1 EXCEPT ![rule]["total"] = @ + 1])

TallyAdd(summary, violation) ==
    LET rule == GetOr(violation, "rule")
        severity == GetOr(violation, "severity")
        s1 == IF rule \in DOMAIN summary THEN summary
              ELSE (rule :> ZeroCounts) @@ summary
        s2 == [s1 EXCEPT ![rule]["total"] = @ + 1]
    IN  IF severity \in DOMAIN ZeroCounts
        THEN Returned([s2 EXCEPT ![rule][severity] = @ + 1])
        ELSE Raised("KeyError")

\* the loop that builds violation_summary, from violation i on
RECURSIVE Tally(_, _, _)
Tally(summary, all_violations, i) ==
    IF i > Len(all_violations) THEN Returned(summary)
    ELSE LET r == TallyAdd(summary, all_violations[i])
         IN  IF r.raised THEN r ELSE Tally(r.value, all_violations, i + 1)

\* sum(1 for v in all_violations if v.get('severity') == severity)
CountSeverity(all_violations, severity) ==
    Cardinality({ i \in 1..Len(all_violations) :
                    "severity" \in DOMAIN all_violations[i]
                    /\ all_violations[i].severity = severity })

\* "PASS" if len(all_violations) == 0 else "FAIL"
Overall_IgnoresLow(all_violations) ==
    IF CountSeverity(all_violations, "high")
       + CountSeverity(all_violations, "medium") = 0
    THEN "PASS" ELSE "FAIL"

Overall(all_violations) ==
    IF Len(all_violations) = 0 THEN "PASS" ELSE "FAIL"

\* the results dictionary (the keys this model follows)
Results(files_checked, dirs_scanned, all_violations, summary) ==
    [scan_info |->
        [total_files_checked |-> files_checked,
         total_directories_scanned |-> dirs_scanned,
         total_violations |-> Len(all_violations)],
     violations |-> all_violations,
     violation_summary |-> summary,
     compliance_status |->
        [overall |-> Overall(all_violations),
         high_severity_issues |-> CountSeverity(all_violations, "high"),
         medium_severity_issues |-> CountSeverity(all_violations, "medium"),
         low_severity_issues |-> CountSeverity(all_violations, "low")]]

\* run_all_checks from "Compile all violations" on: the results it returns,
\* or the exception that leaves it
CompileResults(idv, refv, pepv, langv, files, dirs) ==
    LET all_violations == idv \o refv \o pepv \o langv
        t == Tally([x \in {} |-> ZeroCounts], all_violations, 1)
    IN  IF t.raised THEN t
        ELSE Returned(Results(Len(files), Len(dirs), all_violations, t.value))

-----------------------------------------------------------------------------
(* The report files: save_results and create_summary_report *)

\* the directory of the reports, system/todo, as names
TodoDir == << <<"s", "y", "s", "t", "e", "m">>, <<"t", "o", "d", "o">> >>

\* "rule_check_summary.json"
SummaryName ==
    <<"r", "u", "l", "e", "_", "c", "h", "e", "c", "k", "_">>
    \o <<"s", "u", "m", "m", "a", "r", "y">> \o DotJson

\* output_path.parent / "rule_check_summary.json", relative to the root
SummaryFile == RelPath(TodoDir \o <<SummaryName>>)

\* A relative path as the key of a JSON object.  The keys of the JSON values
\* of this model are TLA+ strings, so the paths that can carry a violation
\* are spelled out.
AsKey(file_info) ==
    CASE file_info = <<"a", "/", "b">> \o DotJson -> "a/b.json"
      [] file_info = <<"a", "/", "c">> \o DotJson -> "a/c.json"
      [] file_info = <<"a", "/", "n">> \o DotMd -> "a/n.md"
      [] file_info = <<"n">> \o DotMd -> "n.md"
      [] file_info = <<"a", "/", "x">> \o DotPy -> "a/x.py"
      [] file_info = ReadmeMd -> "README.md"
      [] file_info = ReportFile -> "system/todo/rule_check_results.json"
      [] file_info = SummaryFile -> "system/todo/rule_check_summary.json"
      [] OTHER -> "<path>"

\* the keys a violation dictionary can carry, in the order they are written
ViolationKeys == <<"rule", "type", "severity", "file", "other_file", "id",
                   "line", "reference", "area_status", "message">>

\* whether a violation of this model carries the key: a key left out is
\* held as NoValue (an area status as "")
Carries(v, key) ==
    IF key = "message" THEN TRUE
    ELSE /\ key \in DOMAIN v
         /\ key \in {"other_file", "id", "reference"} => v[key] # NoValue
         /\ key = "area_status" => v[key] # ""

\* the JSON value written for a key of a violation.  The texts that no check
\* ever reads (rule, type, severity, area status, message) are not spelled
\* out in characters.
ViolationValue(v, key) ==
    IF key = "message" THEN JStr("")
    ELSE IF key = "line" THEN JInt(v[key])
    ELSE JStr(v[key])

\* json.dump of a violation
ViolationJson(v) ==
    LET keys == SelectSeq(ViolationKeys, LAMBDA k : Carries(v, k))
    IN  JObj([i \in 1..Len(keys) |-> KV(keys[i], ViolationValue(v, keys[i]))])

\* the rule names in the order their violations are concatenated
RuleNames == <<"id_management", "crossref_redundancy_check",
               "pep8_compliance", "language_en">>

CountKeys == <<"total", "high", "medium", "low">>

\* json.dump of violation_summary
SummaryJson(summary) ==
    LET rules == SelectSeq(RuleNames, LAMBDA r : r \in DOMAIN summary)
    IN  JObj([i \in 1..Len(rules) |->
                KV(rules[i],
                   JObj([j \in 1..Len(CountKeys) |->
                           KV(CountKeys[j],
                              JInt(summary[rules[i]][CountKeys[j]]))]))])

\* streamlined_results as written to rule_check_results.json
ReportJson(res) ==
    JObj(<<KV("scan_info",
              JObj(<<KV("timestamp", JStr("")),
                     KV("repository_root", JStr(<<"/", "r">>)),
                     KV("total_files_checked",
                        JInt(res.scan_info.total_files_checked)),
                     KV("total_directories_scanned",
                        JInt(res.scan_info.total_directories_scanned)),
                     KV("total_violations",
                        JInt(res.scan_info.total_violations))>>)),
           KV("compliance_status",
              JObj(<<KV("overall", JStr(res.compliance_status.overall)),
                     KV("high_severity_issues",
                        JInt(res.compliance_status.high_severity_issues)),
                     KV("medium_severity_issues",
                        JInt(res.compliance_status.medium_severity_issues)),
                     KV("low_severity_issues",
                        JInt(res.compliance_status.low_severity_issues))>>)),
           KV("violations",
              JArr([i \in 1..Len(res.violations) |->
                      ViolationJson(res.violations[i])])),
           KV("violation_summary", SummaryJson(res.violation_summary))>>)

\* rule == 'pep8_compliance' and severity == 'low'
IsMinorStyle(v) == v.rule = "pep8_compliance" /\ v.severity = "low"

\* the files of the violations create_summary_report groups, each once, in
\* the order of their first violation
RECURSIVE ActionableFiles(_, _, _)
ActionableFiles(viol, i, seen) ==
    IF i > Len(viol) THEN seen
    ELSE IF IsMinorStyle(viol[i])
            \/ \E j \in 1..Len(seen) : seen[j] = viol[i].file
         THEN ActionableFiles(viol, i + 1, seen)
         ELSE ActionableFiles(viol, i + 1, Append(seen, viol[i].file))

\* an entry of actionable_violations[file_path]
ActionableJson(v) ==
    JObj(<<KV("rule", JStr(v.rule)), KV("type", JStr(v.type)),
           KV("severity", JStr(v.severity)), KV("message", JStr("")),
           KV("line", IF "line" \in DOMAIN v THEN JInt(v.line) ELSE JNull),
           KV("reference", IF Carries(v, "reference") THEN JStr(v.reference)
                           ELSE JNull)>>)

\* create_summary_report(results) as written to rule_check_summary.json
SummaryReportJson(res) ==
    LET viol == res.violations
        files == ActionableFiles(viol, 1, <<>>)
        minor == SelectSeq(viol, IsMinorStyle)
        Of(f) == SelectSeq(viol, LAMBDA v : ~IsMinorStyle(v) /\ v.file = f)
        style == { viol[i].file : i \in { j \in 1..Len(viol) :
                                            viol[j].rule = "pep8_compliance" } }
    IN  JObj(<<KV("scan_info",
                  JObj(<<KV("timestamp", JStr("")),
                         KV("total_files_checked",
                            JInt(res.scan_info.total_files_checked)),
                         KV("total_violations",
                            JInt(res.scan_info.total_violations)),
                         KV("status", JStr(res.compliance_status.overall))>>)),
               KV("priority_violations",
                  JObj(<<KV("high_severity",
                            JInt(res.compliance_status.high_severity_issues)),
                         KV("medium_severity",
                            JInt(res.compliance_status.medium_severity_issues)),
                         KV("actionable_files",
                            JObj([i \in 1..Len(files) |->
                                    KV(AsKey(files[i]),
                                       JArr([j \in 1..Len(Of(files[i])) |->
                                               ActionableJson(Of(files[i])[j])]))]))>>)),
               KV("pep8_summary",
                  JObj(<<KV("files_affected", JInt(Cardinality(style))),
                         KV("quick_fixes",
                            JInt(Len(SelectSeq(minor,
                                   LAMBDA v : v.type = "trailing_whitespace")))),
                         KV("total_issues", JInt(Len(minor)))>>)),
               KV("violation_breakdown", SummaryJson(res.violation_summary))>>)

\* what run_all_checks has not returned yet
NoResults == Raised("none")

\* the id and reference violations of the run before; done: there was one
RunBefore(done, id, ref) == [done |-> done, id |-> id, ref |-> ref]

NoRun == RunBefore(FALSE, <<>>, <<>>)

IdleRun ==
    /\ file_text = [x \in {} |-> <<>>]
    /\ pep8_violations = <<>>
    /\ language_violations = <<>>
    /\ results = NoResults
    /\ first_run = NoRun

-----------------------------------------------------------------------------
(* The area registry updater: update_master_index.py *)

\* An area of master_index.json as update_master_index reads it; an index of
\* None is held as NoValue.
IndexArea(key, dir, index, status) ==
    [key |-> key, dir |-> dir, index |-> index, status |-> status]

\* the entry scan_repository_directories makes for a directory: the index
\* file is the one find_index_file found (None if none), and the area is
\* active exactly when there is one
FoundArea(name, index_file) ==
    IndexArea(name, name \o <<"/">>, index_file,
              IF index_file # NoValue THEN "active" ELSE "inactive")

\* found_areas (a dictionary, held in insertion order) and updated_areas
UpdateState(found, updated) == [found |-> found, updated |-> updated]

\* the body of "for area in master_index['areas']"
UpdateArea_DropsMissing(st, area) ==
    LET hits == { i \in 1..Len(st.found) : st.found[i].key = area.key }
    IN  IF hits # {}
        THEN LET i == CHOOSE h \in hits : TRUE
                 found_area == st.found[i]
             IN  UpdateState(
                   SubSeq(st.found, 1, i - 1)
                       \o SubSeq(st.found, i + 1, Len(st.found)),
                   Append(st.updated,
                          [area EXCEPT !.dir = found_area.dir,
                                       !.index = found_area.index,
                                       !.status = found_area.status]))
        ELSE st

UpdateArea(st, area) ==
    LET hits == { i \in 1..Len(st.found) : st.found[i].key = area.key }
    IN  IF hits # {}
        THEN LET i == CHOOSE h \in hits : TRUE
                 found_area == st.found[i]
             IN  UpdateState(
                   SubSeq(st.found, 1, i - 1)
                       \o SubSeq(st.found, i + 1, Len(st.found)),
                   Append(st.updated,
                          [area EXCEPT !.dir = found_area.dir,
                                       !.index = found_area.index,
                                       !.status = found_area.status]))
        ELSE UpdateState(st.found,
                         Append(st.updated, [area EXCEPT !.status = "inactive"]))

\* "for area in master_index['areas']", from area i on
RECURSIVE UpdateAreas(_, _, _)
UpdateAreas(st, areas, i) ==
    IF i > Len(areas) THEN st
    ELSE UpdateAreas(UpdateArea(st, areas[i]), areas, i + 1)

\* update_master_index(master_index, found_areas, repo_root): the areas of
\* the index it returns
UpdateMasterIndex(areas, found_areas) ==
    LET st == UpdateAreas(UpdateState(found_areas, <<>>), areas, 1)
    IN  st.updated \o st.found

IdleIndex ==
    /\ ix_index = <<>>
    /\ ix_found = <<>>
    /\ ix_result = <<>>

-----------------------------------------------------------------------------
(* The modular data validator: modular_validator.py *)

\* a warning or an error: the wording, the faction, module or file it names
\* and the field, target or stat it names ("" where it names none)
Finding(text, subject, detail) ==
    [text |-> text, subject |-> subject, detail |-> detail]

\* "field in value" for a parsed JSON value: a dictionary has the key or not;
\* the strings and lists of the documents of this model hold no field name
FieldIn(value, field) == value.t = "obj" /\ HasKey(value, field)

\* "field in value" raises TypeError: the value is no container
NoContainer(value) == value.t \in {"int", "float", "bool", "null"}

\* value.items() raises AttributeError: the value is no dictionary
NoDict(value) == value.t # "obj"

\* isinstance(value, (int, float)): bool is a subclass of int
IsNumber(value) == value.t \in {"int", "float", "bool"}

\* what a validator hands back: a dictionary with the keys "warnings" and
\* "errors", or an exception
Findings(warnings, errors) ==
    [keys |-> {"warnings", "errors"}, warnings |-> warnings,
     errors |-> errors, cross_references |-> {}, raised |-> FALSE]

\* what validate_cross_references hands back: the key "cross_references"
\* as well
FindingsAndRefs(warnings, errors, cross_references) ==
    [keys |-> {"warnings", "errors", "cross_references"},
     warnings |-> warnings, errors |-> errors,
     cross_references |-> cross_references, raised |-> FALSE]

RaisedInValidator ==
    [keys |-> {}, warnings |-> <<>>, errors |-> <<>>,
     cross_references |-> {}, raised |-> TRUE]

\* one finding of the given wording per field of fields that passes test
ForFields(fields, Test(_), text, subject) ==
    LET hit == SelectSeq(fields, Test)
    IN  [i \in 1..Len(hit) |-> Finding(text, subject, hit[i])]

RequiredFields ==
    <<"id", "name", "territory", "stats", "relations", "abilities", "type">>

NarrativeFields == <<"description", "history", "culture", "objectives", "motto">>

ExpectedStats ==
    <<"military_strength", "economic_power", "territory_control", "population">>

\* not isinstance(value, (int, float)) or value < -2 or value > 2; a float of
\* the documents of this model lies in the range
InvalidRelation(value) ==
    \/ ~IsNumber(value)
    \/ value.t = "int" /\ (value.n < 0 - 2 \/ value.n > 2)

\* the body of "for faction_id, faction_data in factions.items()"
FactionStep(acc, faction_id, faction_data) ==
    IF acc.raised \/ NoContainer(faction_data) THEN RaisedInValidator
    ELSE LET missing(f) == ~FieldIn(faction_data, f)
             present(f) == FieldIn(faction_data, f)
             e1 == acc.errors
                   \o ForFields(RequiredFields, missing,
                                "missing required field", faction_id)
             w1 == acc.warnings
                   \o ForFields(NarrativeFields, present,
                                "narrative field in mechanics data", faction_id)
             relations == IF present("relations")
                          THEN Get(faction_data, "relations") ELSE JObj(<<>>)
             bad == SelectSeq(relations.kids,
                              LAMBDA kv : InvalidRelation(kv.v))
             e2 == e1 \o [i \in 1..Len(bad) |->
                            Finding("invalid relation value", faction_id,
                                    bad[i].k)]
             stats == IF present("stats")
                      THEN Get(faction_data, "stats") ELSE JObj(<<>>)
             nostat(s) == ~FieldIn(stats, s)
             badstat(s) == FieldIn(stats, s) /\ ~IsNumber(Get(stats, s))
             w2 == IF present("stats")
                   THEN w1 \o ForFields(ExpectedStats, nostat,
                                        "missing recommended stat", faction_id)
                   ELSE w1
             e3 == IF present("stats")
                   THEN e2 \o ForFields(ExpectedStats, badstat,
                                        "non-numeric stat", faction_id)
                   ELSE e2
         IN  IF present("relations") /\ NoDict(relations)
             THEN RaisedInValidator
             ELSE IF present("stats") /\ NoContainer(stats)
             THEN RaisedInValidator
             ELSE Findings(w2, e3)

\* a loop over the items of a dictionary, from item i on
RECURSIVE FactionLoop(_, _, _)
FactionLoop(acc, kids, i) ==
    IF i > Len(kids) THEN acc
    ELSE FactionLoop(FactionStep(acc, kids[i].k, kids[i].v), kids, i + 1)

\* validate_mechanics_structure(data)
ValidateMechanicsStructure(data) ==
    IF NoContainer(data) THEN RaisedInValidator
    ELSE IF ~FieldIn(data, "factions")
    THEN Findings(<<>>, <<Finding("mechanics data missing 'factions' key",
                                  "", "")>>)
    ELSE IF NoDict(Get(data, "factions")) THEN RaisedInValidator
    ELSE FactionLoop(Findings(<<>>, <<>>),
                     Get(data, "factions").kids, 1)

LoreFields ==
    <<"faction_id", "detailed_description", "founding_story", "culture",
      "objectives">>

MechanicalFields == <<"stats", "abilities", "type">>

\* the body of "for module_id, module_data in lore_modules.items()"
ModuleStep(acc, module_id, module_data) ==
    IF acc.raised \/ NoContainer(module_data) THEN RaisedInValidator
    ELSE LET missing(f) == ~FieldIn(module_data, f)
             present(f) == FieldIn(module_data, f)
         IN  Findings(acc.warnings
                        \o ForFields(LoreFields, missing,
                                     "missing recommended field", module_id)
                        \o ForFields(MechanicalFields, present,
                                     "mechanical field in lore data", module_id),
                      acc.errors)

RECURSIVE ModuleLoop(_, _, _)
ModuleLoop(acc, kids, i) ==
    IF i > Len(kids) THEN acc
    ELSE ModuleLoop(ModuleStep(acc, kids[i].k, kids[i].v), kids, i + 1)

\* validate_lore_structure(data)
ValidateLoreStructure(data) ==
    IF NoContainer(data) THEN RaisedInValidator
    ELSE IF ~FieldIn(data, "lore_modules")
    THEN Findings(<<>>, <<Finding("lore data missing 'lore_modules' key",
                                  "", "")>>)
    ELSE IF NoDict(Get(data, "lore_modules")) THEN RaisedInValidator
    ELSE ModuleLoop(Findings(<<>>, <<>>),
                    Get(data, "lore_modules").kids, 1)

\* A faction_id of a lore module as an element of the set lore_faction_refs:
\* a string is the faction key it spells, any other hashable value equals no
\* key
FactionRef(value) ==
    IF value.t # "str" THEN "(no string)"
    ELSE CASE value.s = <<"f">> -> "f"
           [] value.s = <<"g">> -> "g"
           [] OTHER -> "(other)"

\* set(mechanics["factions"].keys())
MechanicFactions(mechanics) ==
    { Get(mechanics, "factions").kids[i].k :
        i \in 1..Len(Get(mechanics, "factions").kids) }

\* the lore modules that carry a faction_id
ModulesWithRef(lore) ==
    SelectSeq(Get(lore, "lore_modules").kids,
              LAMBDA kv : FieldIn(kv.v, "faction_id"))

\* lore_faction_refs
LoreFactionRefs(lore) ==
    { FactionRef(Get(ModulesWithRef(lore)[i].v, "faction_id")) :
        i \in 1..Len(ModulesWithRef(lore)) }

\* cross_refs as validate_cross_references fills it: a dictionary, held as
\* the set of its items
CrossRefs(mechanics_count, lore_count, complete_pairs) ==
    { <<"mechanics_count", mechanics_count>>, <<"lore_count", lore_count>>,
      <<"complete_pairs", complete_pairs>> }

EmptyCrossRefs == {}

\* validate_cross_references(mechanics, lore); the two sets of missing
\* factions are iterated in the orders lore_order and mechanics_order
ValidateCrossReferences(mechanics, lore, lore_order, mechanics_order) ==
    IF NoContainer(mechanics) THEN RaisedInValidator
    ELSE IF FieldIn(mechanics, "factions") /\ NoContainer(lore)
    THEN RaisedInValidator
    ELSE IF ~FieldIn(mechanics, "factions") \/ ~FieldIn(lore, "lore_modules")
    THEN FindingsAndRefs(<<>>, <<>>, EmptyCrossRefs)
    ELSE IF NoDict(Get(mechanics, "factions"))
            \/ NoDict(Get(lore, "lore_modules"))
            \/ \E i \in 1..Len(Get(lore, "lore_modules").kids) :
                  NoContainer(Get(lore, "lore_modules").kids[i].v)
            \/ \E j \in 1..Len(ModulesWithRef(lore)) :
                  Get(ModulesWithRef(lore)[j].v, "faction_id").t
                     \in {"obj", "arr"}
    THEN RaisedInValidator
    ELSE LET mechanic_factions == MechanicFactions(mechanics)
             lore_faction_refs == LoreFactionRefs(lore)
         IN  FindingsAndRefs(
               [i \in 1..Len(lore_order) |->
                  Finding("mechanics but no lore module", lore_order[i], "")],
               [i \in 1..Len(mechanics_order) |->
                  Finding("lore references faction not in mechanics",
                          mechanics_order[i], "")],
               CrossRefs(Cardinality(mechanic_factions),
                         Cardinality(lore_faction_refs),
                         Cardinality(mechanic_factions \cap lore_faction_refs)))

\* missing_lore and missing_mechanics, the empty set where the function
\* returns before it computes them
MissingLore(mechanics, lore) ==
    IF FieldIn(mechanics, "factions") /\ FieldIn(lore, "lore_modules")
       /\ ~ValidateCrossReferences(mechanics, lore, <<>>, <<>>).raised
    THEN MechanicFactions(mechanics) \ LoreFactionRefs(lore)
    ELSE {}

MissingMechanics(mechanics, lore) ==
    IF FieldIn(mechanics, "factions") /\ FieldIn(lore, "lore_modules")
       /\ ~ValidateCrossReferences(mechanics, lore, <<>>, <<>>).raised
    THEN LoreFactionRefs(lore) \ MechanicFactions(mechanics)
    ELSE {}

\* the body of "for module_path in context_data['modules']"
ModulePathStep(acc, module_path, existing) ==
    IF acc.raised \/ module_path.t # "str" THEN RaisedInValidator
    ELSE IF module_path.s \in existing THEN acc
    ELSE Findings(Append(acc.warnings,
                         Finding("loading config references non-existent file",
                                 "", module_path.s)),
                  acc.errors)

RECURSIVE ModulePathLoop(_, _, _, _)
ModulePathLoop(acc, kids, i, existing) ==
    IF i > Len(kids) THEN acc
    ELSE ModulePathLoop(ModulePathStep(acc, kids[i].v, existing), kids, i + 1,
                        existing)

\* the body of "for context_name, context_data in ...items()"; the modules
\* of the documents of this model are lists or no containers
ContextStep(acc, context_data, existing) ==
    IF acc.raised \/ NoContainer(context_data) THEN RaisedInValidator
    ELSE IF ~FieldIn(context_data, "modules") THEN acc
    ELSE IF Get(context_data, "modules").t # "arr" THEN RaisedInValidator
    ELSE ModulePathLoop(acc, Get(context_data, "modules").kids, 1, existing)

RECURSIVE ContextLoop(_, _, _, _)
ContextLoop(acc, kids, i, existing) ==
    IF i > Len(kids) THEN acc
    ELSE ContextLoop(ContextStep(acc, kids[i].v, existing), kids, i + 1,
                     existing)

\* validate_loading_config(config); existing: the module paths that exist
\* below the repository root
ValidateLoadingConfig(config, existing) ==
    IF NoContainer(config) THEN RaisedInValidator
    ELSE IF ~FieldIn(config, "load_contexts")
    THEN Findings(<<>>, <<Finding("loading config missing 'load_contexts'",
                                  "", "")>>)
    ELSE IF NoDict(Get(config, "load_contexts")) THEN RaisedInValidator
    ELSE ContextLoop(Findings(<<>>, <<>>),
                     Get(config, "load_contexts").kids, 1, existing)

\* results of validate_modular_structure; token_estimates is held as
\* "empty" ({}) or "estimated" (the numbers are not modelled)
ValidatorResults(valid, warnings, errors, token_estimates, cross_references) ==
    [valid |-> valid, warnings |-> warnings, errors |-> errors,
     token_estimates |-> token_estimates,
     cross_references |-> cross_references]

\* results as validate_modular_structure sets it up
NewResults == ValidatorResults(TRUE, <<>>, <<>>, "empty", EmptyCrossRefs)

\* results["errors"].append(...); results["valid"] = False
Fail(res, text) ==
    [res EXCEPT !.errors = Append(@, Finding(text, "", "")),
                    !.valid = FALSE]

\* results.update(d): every key of d replaces the value results has for it
ResultsUpdate(res, d) ==
    [res EXCEPT !.warnings = IF "warnings" \in d.keys THEN d.warnings ELSE @,
                !.errors = IF "errors" \in d.keys THEN d.errors ELSE @,
                !.cross_references =
                    IF "cross_references" \in d.keys
                    THEN d.cross_references ELSE @]

\* a data file on disk: absent, or what open and json.load make of it
\* ("ok", "bad_json": JSONDecodeError, "io_error": any other exception)
DataFile(state, doc) == [state |-> state, doc |-> doc]

\* the exception the except clauses of validate_modular_structure catch
\* when a file fails to load
LoadFailure(file) ==
    IF file.state = "bad_json" THEN "JSON parsing error" ELSE "Validation error"

\* the try block of validate_modular_structure from the validation of the
\* loading config on
ValidateConfigPart(res, tree) ==
    IF tree.config.state = "absent" THEN res
    ELSE IF tree.config.state # "ok" THEN Fail(res, LoadFailure(tree.config))
    ELSE LET c == ValidateLoadingConfig(tree.config.doc, tree.modules)
         IN  IF c.raised THEN Fail(res, "Validation error")
             ELSE ResultsUpdate(res, c)

\* the try block of validate_modular_structure
ValidateLoaded(res, tree, lore_order, mechanics_order) ==
    IF tree.mechanics.state # "ok"
    THEN Fail(res, LoadFailure(tree.mechanics))
    ELSE IF tree.lore.state # "ok" THEN Fail(res, LoadFailure(tree.lore))
    ELSE LET m == ValidateMechanicsStructure(tree.mechanics.doc)
             r1 == ResultsUpdate(res, m)
             l == ValidateLoreStructure(tree.lore.doc)
             r2 == ResultsUpdate(r1, l)
             x == ValidateCrossReferences(tree.mechanics.doc, tree.lore.doc,
                                          lore_order, mechanics_order)
             r3 == ResultsUpdate(r2, x)
         IN  IF m.raised THEN Fail(res, "Validation error")
             ELSE IF l.raised THEN Fail(r1, "Validation error")
             ELSE IF x.raised THEN Fail(r2, "Validation error")
             ELSE ValidateConfigPart(
                    [r3 EXCEPT !.token_estimates = "estimated"], tree)

\* validate_modular_structure(repo_root)
ValidateModularStructure(tree, lore_order, mechanics_order) ==
    IF tree.mechanics.state = "absent"
    THEN Fail(NewResults, "Missing core mechanics file")
    ELSE IF tree.lore.state = "absent"
    THEN Fail(NewResults, "Missing lore file")
    ELSE ValidateLoaded(
           IF tree.config.state = "absent"
           THEN [NewResults EXCEPT !.warnings =
                    Append(@, Finding("Missing loading config", "", ""))]
           ELSE NewResults,
           tree, lore_order, mechanics_order)

-----------------------------------------------------------------------------
(* The parts of the state an operation on its own leaves idle *)

\* nothing has been extracted and nothing validated
IdleExtract ==
    /\ ex_data = JNull
    /\ ex_ids = <<>>

IdleValidator ==
    /\ mv_tree = <<>>
    /\ mv_results = <<>>

IdleOther == IdleIndex /\ IdleExtract /\ IdleValidator

IdleScan ==
    /\ fs = {}
    /\ listing = [x \in {} |-> <<>>]
    /\ structure = EmptyStructure
    /\ prev_structure = EmptyStructure
    /\ scanned_directories = <<>>
    /\ scans = 0

\* the parts of the state an operation on its own leaves as they are made
IdleMore == IdleScan /\ IdleRun /\ IdleOther

-----------------------------------------------------------------------------
(* Inputs of the oracle *)

StatusPool == {"active", "inactive", "archived"}

DirPool == { <<"a", "/">>, <<"a">>, <<"a", "b", "/">>,
             <<"a", "/", "b", "/">>, <<"b", "/">> }

AreaPool ==
    { Area(TRUE, d, TRUE, s) : d \in DirPool, s \in StatusPool }
    \cup { Area(TRUE, d, FALSE, "") : d \in DirPool }
    \cup { Area(FALSE, <<>>, TRUE, s) : s \in StatusPool }
    \cup { Area(FALSE, <<>>, FALSE, "") }

SeqsUpTo(S, n) == UNION { [1..k -> S] : k \in 0..n }

PathPool == { <<>>, <<"a">>, <<"a", "/">>, <<"a", "/", "/">>, <<"a", "b">>,
              <<"a", "/", "b">>, <<"b">>, <<"/">>, <<"/", "a">>, <<"c">> }

\* master_index.json: absent, not JSON, or a JSON object
MiFilePool ==
    { [state |-> "absent", content |-> EmptyDict],
      [state |-> "invalid", content |-> EmptyDict],
      [state |-> "valid", content |-> EmptyDict],
      [state |-> "valid", content |-> MasterIndex(TRUE, FALSE, "none", <<>>)],
      [state |-> "valid", content |-> MasterIndex(TRUE, TRUE, "null", <<>>)] }
    \cup { [state |-> "valid", content |-> MasterIndex(TRUE, TRUE, "list", as)] :
             as \in SeqsUpTo(AreaPool, MaxAreas) }

-----------------------------------------------------------------------------
(* The oracle on its own: load the registry, then query it *)

InitArea ==
    /\ mi_file \in MiFilePool
    /\ master_index = EmptyDict
    /\ q_path = NoValue
    /\ q_result = Returned("none")
    /\ IdleIdCheck
    /\ IdleRefCheck
    /\ IdleMore
    /\ pc = "init"

\* run_all_checks: self.master_index = self.load_master_index()
LoadIndex ==
    /\ pc = "init"
    /\ master_index' = LoadMasterIndex(mi_file)
    /\ pc' = "loaded"
    /\ UNCHANGED <<mi_file, q_path, q_result, idVars, refVars,
                   moreVars>>

\* a call get_area_status(path)
QueryArea ==
    /\ pc \in {"init", "loaded", "queried"}
    /\ \E p \in PathPool :
          /\ q_path' = p
          /\ q_result' = GetAreaStatus(master_index, p)
    /\ pc' = IF pc = "init" THEN "init" ELSE "queried"
    /\ UNCHANGED <<mi_file, master_index, idVars, refVars,
                   moreVars>>

NextArea == LoadIndex \/ QueryArea

SpecArea == InitArea /\ [][NextArea]_vars

-----------------------------------------------------------------------------
(* Claims about the Area Status Oracle *)

\* p is a prefix of s, said without SubSeq on s alone: s is p followed by
\* something
IsPrefixOf(p, s) == \E k \in 0..Len(s) : p = [i \in 1..k |-> s[i]]

\* the separators stripped from the end of path
Slashes(k) == [i \in 1..k |-> "/"]

EndsInOneSeparator(n, path) ==
    /\ Len(n) >= 1
    /\ n[Len(n)] = "/"
    /\ Len(n) >= 2 => n[Len(n) - 1] # "/"
    /\ \E k \in 0..Len(path) : path = SubSeq(n, 1, Len(n) - 1) \o Slashes(k)

\* the candidate with its trailing separators replaced by exactly one
ExpectedNormal(path) ==
    CHOOSE n \in { SubSeq(path, 1, k) \o <<"/">> : k \in 0..Len(path) } :
        EndsInOneSeparator(n, path)

\* indices of the entries that match the candidate n by symmetric containment
MatchingEntries(areas, n) ==
    { i \in 1..Len(areas) :
        LET d == IF areas[i].hasDir THEN areas[i].dir ELSE <<>>
        IN  IsPrefixOf(d, n) \/ IsPrefixOf(n, d) }

ListQueried ==
    /\ pc = "queried"
    /\ master_index.nonempty /\ master_index.hasAreas
    /\ master_index.areasKind = "list"

\* C9: get_area_status normalizes the candidate to end in exactly one
\* separator, an entry matches when its dir is a prefix of the normalized
\* candidate or the normalized candidate is a prefix of its dir, the status of
\* the first matching entry in registry order is returned (whatever later
\* entries say), and without a matching entry the result is 'unknown'.
C9_FirstMatchWins ==
    ListQueried =>
        LET n == ExpectedNormal(q_path)
            m == MatchingEntries(master_index.areas, n)
        IN  /\ NormalizePath(q_path) = n
            /\ ~q_result.raised
            /\ m = {} => q_result.value = "unknown"
            /\ m # {} =>
                 LET a == master_index.areas[MinOf(m)]
                 IN  q_result.value = IF a.hasStatus THEN a.status ELSE "unknown"

\* C9 witness: the first entry matches only because the candidate is a prefix
\* of its dir, a later entry matches too with another status, and the first
\* one's status came back; the candidate had trailing separators to strip.
C9_Witness ==
    /\ ListQueried
    /\ Len(master_index.areas) = 2
    /\ MatchingEntries(master_index.areas, NormalizePath(q_path)) = {1, 2}
    /\ ~IsPrefixOf(master_index.areas[1].dir, NormalizePath(q_path))
    /\ master_index.areas[1].hasStatus /\ master_index.areas[2].hasStatus
    /\ master_index.areas[1].status # master_index.areas[2].status
    /\ q_result = Returned(master_index.areas[1].status)
    /\ q_path # RStripSep(q_path)

\* the registry document is absent, is not JSON, or has no usable "areas" list
MalformedRegistry(f) ==
    \/ f.state \in {"absent", "invalid"}
    \/ ~f.content.hasAreas
    \/ f.content.areasKind # "list"

\* C10: with an absent or malformed area registry document, get_area_status
\* returns 'unknown' for every path and never raises.
C10_MalformedRegistryIsUnknown ==
    (pc = "queried" /\ MalformedRegistry(mi_file)) =>
        q_result = Returned("unknown")

\* the part of C10 the code does keep: a missing or unparsable document, or
\* one without the "areas" key, gives 'unknown'
C10_AbsentRegistryIsUnknown ==
    (pc = "queried" /\ (mi_file.state \in {"absent", "invalid"}
                         \/ ~mi_file.content.hasAreas)) =>
        q_result = Returned("unknown")

\* the values the contract of get_area_status names
ContractStatuses == {"active", "inactive", "unknown"}

\* C11: for every path and every loaded area registry, the value
\* get_area_status returns is one of 'active', 'inactive', 'unknown'.
C11_ResultInContract ==
    (pc = "queried" /\ ~q_result.raised) => q_result.value \in ContractStatuses

\* what the code does return: 'unknown', or the "status" value of the first
\* matching entry exactly as the registry document spells it
C11_ResultIsUnknownOrDeclared ==
    (pc = "queried" /\ ~q_result.raised) =>
        \/ q_result.value = "unknown"
        \/ \E i \in 1..Len(master_index.areas) :
              /\ master_index.areas[i].hasStatus
              /\ q_result.value = master_index.areas[i].status

-----------------------------------------------------------------------------
(* Inputs of the id check: scanned files and their contents *)

X1 == <<"x", "1">>
X2 == <<"x", "2">>

FileB == <<"a", "/", "b">> \o DotJson
FileC == <<"a", "/", "c">> \o DotJson
FileUpper == <<"a", "/", "D", ".", "J", "S", "O", "N">>
FileMd == <<"n">> \o DotMd

IdPathPool == {FileB, FileC, FileUpper, FileMd, ReportFile}

JsonDoc(doc) == Content("ok", FALSE, FALSE, TRUE, doc, <<>>)
BadJson == Content("ok", FALSE, FALSE, FALSE, JNull, <<>>)
BadUtf8 == Content("bad_utf8", FALSE, FALSE, FALSE, JNull, <<>>)
Unreadable == Content("io_error", FALSE, FALSE, FALSE, JNull, <<>>)
Markdown(links) == Content("ok", FALSE, FALSE, FALSE, JNull, links)

IdDocPool ==
    { JObj(<<KV("id", JStr(X1))>>),
      JObj(<<KV("id", JStr(X1)), KV("key", JStr(X1))>>),
      JObj(<<KV("id", JInt(7)),
             KV("items", JArr(<<JObj(<<KV("id", JStr(<<"7">>))>>),
                                JObj(<<KV("item_id", JStr(X2))>>)>>))>>),
      JObj(<<KV("name", JStr(X1)), KV("key", JNull), KV("actor_id", JFloat),
             KV("event_id", JBool(TRUE)),
             KV("meta", JObj(<<KV("id", JStr(X2))>>))>>) }

\* a report of an earlier run names the duplicated identifier in each
\* duplicate_id violation it lists
ReportDoc ==
    JObj(<<KV("violations",
              JArr(<<JObj(<<KV("rule", JStr(<<"i", "d">>)),
                            KV("id", JStr(X1))>>)>>))>>)

IdContentPool(file_info) ==
    IF file_info = ReportFile THEN {JsonDoc(ReportDoc), BadJson}
    ELSE IF file_info = FileMd THEN {Markdown(<<>>)}
    ELSE IF file_info = FileUpper
         THEN {JsonDoc(JObj(<<KV("id", JStr(X1))>>)), BadJson}
    ELSE {JsonDoc(d) : d \in IdDocPool} \cup {BadJson, BadUtf8, Unreadable}

Range(f) == {f[i] : i \in DOMAIN f}

\* sequences of at most n distinct elements of S
DistinctSeqs(S, n) ==
    {q \in SeqsUpTo(S, n) : \A i, j \in 1..Len(q) : i # j => q[i] # q[j]}

\* the ways to put a content of its pool under each path of S
RECURSIVE IdContents(_)
IdContents(S) ==
    IF S = {} THEN {EmptyMap}
    ELSE LET p == CHOOSE x \in S : TRUE
         IN  {(p :> c) @@ f : c \in IdContentPool(p), f \in IdContents(S \ {p})}

IdleArea ==
    /\ mi_file = [state |-> "absent", content |-> EmptyDict]
    /\ master_index = EmptyDict
    /\ q_path = NoValue
    /\ q_result = Returned("none")

\* a fresh checker after scan_repository_structure
InitId ==
    /\ IdleArea
    /\ checked_files \in DistinctSeqs(IdPathPool, MaxFiles)
    /\ file_content \in IdContents(Range(checked_files))
    /\ id_registry = EmptyMap
    /\ id_violations = <<>>
    /\ idx = 0
    /\ calls = 0
    /\ IdleRefCheck
    /\ IdleMore
    /\ pc = "scanned"

\* check_id_uniqueness is entered: violations = []
IdCheckBegin_ClearsRegistry ==
    /\ pc \in {"scanned", "id_done"}
    /\ calls < MaxCalls
    /\ id_violations' = <<>>
    /\ id_registry' = EmptyMap
    /\ idx' = 1
    /\ calls' = calls + 1
    /\ pc' = "id_loop"
    /\ UNCHANGED <<areaVars, refVars, checked_files, file_content, moreVars>>

IdCheckBegin ==
    /\ pc \in {"scanned", "id_done"}
    /\ calls < MaxCalls
    /\ id_violations' = <<>>
    /\ idx' = 1
    /\ calls' = calls + 1
    /\ pc' = "id_loop"
    /\ UNCHANGED <<areaVars, refVars, checked_files, file_content, id_registry,
                   moreVars>>

\* one iteration of the loop over self.checked_files
IdCheckFile ==
    /\ pc = "id_loop"
    /\ idx <= Len(checked_files)
    /\ LET st == IdCheckStep(IdState(id_registry, id_violations),
                             checked_files[idx],
                             file_content[checked_files[idx]])
       IN  /\ id_registry' = st.reg
           /\ id_violations' = st.viol
    /\ idx' = idx + 1
    /\ UNCHANGED <<areaVars, refVars, checked_files, file_content, calls, pc,
                   moreVars>>

\* return violations
IdCheckReturn ==
    /\ pc = "id_loop"
    /\ idx > Len(checked_files)
    /\ pc' = "id_done"
    /\ UNCHANGED <<areaVars, refVars, idVars,
                   moreVars>>

NextId == IdCheckBegin \/ IdCheckFile \/ IdCheckReturn

SpecId == InitId /\ [][NextId]_vars

-----------------------------------------------------------------------------
(* Claims about the ID Registry *)

\* a .json file of the scan that opens and parses
ParseableJson(file_info) ==
    /\ Lower(Suffix(file_info)) = DotJson
    /\ file_content[file_info].rd = "ok"
    /\ file_content[file_info].parses

\* the qualifying identifier occurrences of the files q, in processing
\* order, each with the file it stands in
Occurrences(q) ==
    Flatten([i \in 1..Len(q) |->
               LET ids == ExtractIds(file_content[q[i]].doc)
               IN  [j \in 1..Len(ids) |-> [file |-> q[i], id |-> ids[j]]]])

\* the occurrences of occ that repeat an earlier one
RECURSIVE Repeats(_, _)
Repeats(occ, i) ==
    IF i > Len(occ) THEN <<>>
    ELSE (IF \E j \in 1..(i - 1) : occ[j].id = occ[i].id
          THEN <<occ[i]>> ELSE <<>>) \o Repeats(occ, i + 1)

IsDuplicate(v) == v.type = "duplicate_id"

\* the duplicate_id violations of a list, as (file, id) occurrences
FlaggedOccurrences(viol) ==
    LET d == SelectSeq(viol, IsDuplicate)
    IN  [i \in 1..Len(d) |-> [file |-> d[i].file, id |-> d[i].id]]

NotReportFile(file_info) == file_info # ReportFile

FirstCallDone == pc = "id_done" /\ calls = 1

\* C1 as stated: on a fresh checker, over the parseable .json files in
\* checked_files, exactly the second and later occurrences of an identifier
\* value are flagged duplicate_id (severity high), never the first.
C1_RepeatsFlagged_AllJsonFiles ==
    FirstCallDone =>
        /\ FlaggedOccurrences(id_violations)
             = Repeats(Occurrences(SelectSeq(checked_files, ParseableJson)), 1)
        /\ \A i \in 1..Len(id_violations) :
             IsDuplicate(id_violations[i]) => id_violations[i].severity = "high"

DataJson(file_info) == ParseableJson(file_info) /\ NotReportFile(file_info)

\* C1 amended: the same, over the parseable .json files in checked_files other
\* than the checker's own report system/todo/rule_check_results.json, whose
\* identifier values are neither registered nor flagged.
C1_RepeatsFlagged_DataFiles ==
    FirstCallDone =>
        /\ FlaggedOccurrences(id_violations)
             = Repeats(Occurrences(SelectSeq(checked_files, DataJson)), 1)
        /\ \A i \in 1..Len(id_violations) :
             IsDuplicate(id_violations[i]) => id_violations[i].severity = "high"

\* C1 witness: a value occurs twice in one file and again in a later file; the
\* second and third occurrence are flagged, the first is not.
C1_Witness ==
    /\ FirstCallDone
    /\ LET occ == Occurrences(SelectSeq(checked_files, DataJson))
       IN  \E i, j, k \in 1..Len(occ) :
              /\ i < j /\ j < k
              /\ occ[i].id = occ[j].id /\ occ[j].id = occ[k].id
              /\ occ[i].file = occ[j].file /\ occ[j].file # occ[k].file
              /\ \A h \in 1..(i - 1) : occ[h].id # occ[i].id
              /\ FlaggedOccurrences(id_violations) = <<occ[j], occ[k]>>

\* the first data file, in processing order, that holds the value
FirstDeclarer(id_value) ==
    LET q == SelectSeq(checked_files, DataJson)
        holders == {i \in 1..Len(q) :
                      id_value \in Range(ExtractIds(file_content[q[i]].doc))}
    IN  q[MinOf(holders)]

\* C2: the registry is first-seen-wins.  A registered value keeps its file in
\* every step, and each duplicate_id violation a step appends names the file
\* being processed as file and the first-declaring file as other_file.
C2_FirstSeenWins ==
    [][ /\ \A v \in DOMAIN id_registry :
             v \in DOMAIN id_registry' /\ id_registry'[v] = id_registry[v]
        /\ pc = "id_loop" =>
             \A k \in (Len(id_violations) + 1)..Len(id_violations') :
                LET w == id_violations'[k]
                IN  IsDuplicate(w) =>
                      /\ w.file = checked_files[idx]
                      /\ w.other_file = FirstDeclarer(w.id)
                      /\ w.other_file = id_registry'[w.id] ]_vars

\* C2 witness: one value declared in three files; the second and the third
\* file are both flagged against the first.
C2_Witness ==
    /\ pc = "id_done" /\ calls = 1
    /\ Len(checked_files) = 3
    /\ \A i \in 1..3 : DataJson(checked_files[i])
                       /\ X1 \in Range(ExtractIds(file_content[checked_files[i]].doc))
    /\ \E i, j \in 1..Len(id_violations) :
          /\ id_violations[i].file = checked_files[2]
          /\ id_violations[j].file = checked_files[3]
          /\ id_violations[i].id = X1 /\ id_violations[j].id = X1
          /\ id_violations[i].other_file = checked_files[1]
          /\ id_violations[j].other_file = checked_files[1]

-----------------------------------------------------------------------------
(* Inputs of the reference check *)

XPy == <<"x", ".", "p", "y">>
RefRel == XPy
RefAbs == <<"/">> \o XPy
RefAbs2 == <<"/", "/">> \o XPy
RefOld == <<"o", "l", "d", "/">> \o XPy
RefPlaceholder == <<"{", "{", "n", "}", "}", "/">> \o XPy
PlainName == <<"x">>

FileMdA == <<"a", "/", "n">> \o DotMd

RefPathPool == {FileB, FileMdA, ReportFile}

RefDocPool ==
    { JObj(<<KV("path", JStr(RefRel))>>),
      JObj(<<KV("file", JStr(RefAbs)), KV("name", JStr(PlainName)),
             KV("dir", JStr(PlainName)), KV("image", JStr(RefAbs2))>>),
      JObj(<<KV("path", JStr(RefOld)), KV("index", JStr(RefRel))>>),
      JObj(<<KV("icon", JStr(RefPlaceholder)), KV("path", JInt(7)),
             KV("items", JArr(<<JObj(<<KV("script", JStr(RefOld))>>)>>))>>) }

\* a report of an earlier run names a file and a reference in each violation
\* it lists
ReportRefDoc ==
    JObj(<<KV("violations",
              JArr(<<JObj(<<KV("file", JStr(FileB)),
                            KV("reference", JStr(RefRel))>>)>>))>>)

LinkPool ==
    { <<RefRel, Http \o <<"x">> >>,
      <<RefAbs>>,
      <<Https \o <<"x">>, <<"#", "x">>, RefOld>> }

RefContentPool(file_info) ==
    IF file_info = ReportFile THEN {JsonDoc(ReportRefDoc)}
    ELSE IF file_info = FileMdA
         THEN {Markdown(l) : l \in LinkPool} \cup {Unreadable}
    ELSE {JsonDoc(d) : d \in RefDocPool}
         \cup { Content("ok", TRUE, TRUE, TRUE, JObj(<<KV("path", JStr(RefRel))>>), <<>>),
                Content("ok", TRUE, TRUE, FALSE, JNull, <<>>),
                Content("ok", TRUE, FALSE, TRUE, JObj(<<KV("path", JStr(RefRel))>>), <<>>),
                Content("ok", FALSE, TRUE, TRUE, JObj(<<KV("path", JStr(RefRel))>>), <<>>),
                BadJson, BadUtf8, Unreadable }

RECURSIVE RefContents(_)
RefContents(S) ==
    IF S = {} THEN {EmptyMap}
    ELSE LET p == CHOOSE x \in S : TRUE
         IN  {(p :> c) @@ f : c \in RefContentPool(p), f \in RefContents(S \ {p})}

\* the paths a reference of the pools can resolve to: x.py under the root,
\* under the directory a/ of the referencing files, and at the top of the
\* file system
TargetPool == { RepoRoot \o <<XPy>>, RepoRoot \o << <<"a">>, XPy >>, <<XPy>> }

\* a path and the directories above it
Ancestors(path) == { SubSeq(path, 1, k) : k \in 0..Len(path) }

OldInactive == Area(TRUE, <<"o", "l", "d", "/">>, TRUE, "inactive")

RefMiPool ==
    { [state |-> "absent", content |-> EmptyDict],
      [state |-> "valid", content |-> MasterIndex(TRUE, TRUE, "null", <<>>)],
      [state |-> "valid",
       content |-> MasterIndex(TRUE, TRUE, "list", <<OldInactive>>)],
      [state |-> "valid",
       content |-> MasterIndex(TRUE, TRUE, "list",
                               <<Area(TRUE, <<"a", "/">>, TRUE, "inactive"),
                                 Area(TRUE, <<"o", "l", "d", "/">>, TRUE,
                                      "archived")>>)],
      [state |-> "valid",
       content |-> MasterIndex(TRUE, TRUE, "list",
                               <<Area(TRUE, <<"o">>, FALSE, ""),
                                 OldInactive>>)] }

\* a fresh checker after load_master_index and scan_repository_structure
InitRef ==
    /\ mi_file \in RefMiPool
    /\ master_index = LoadMasterIndex(mi_file)
    /\ q_path = NoValue
    /\ q_result = Returned("none")
    /\ checked_files \in DistinctSeqs(RefPathPool, MaxFiles)
    /\ file_content \in RefContents(Range(checked_files))
    /\ \E targets \in SUBSET TargetPool :
          exists = UNION { Ancestors(t) :
                           t \in targets \cup { JoinPath(RepoRoot, f) :
                                                f \in Range(checked_files) } }
                   \cup {RepoRoot, <<>>}
    /\ ref_violations = <<>>
    /\ id_registry = EmptyMap
    /\ id_violations = <<>>
    /\ idx = 0
    /\ calls = 0
    /\ IdleMore
    /\ pc = "scanned"

\* check_file_references is entered: violations = []
RefCheckBegin ==
    /\ pc \in {"scanned", "id_done"}
    /\ ref_violations' = <<>>
    /\ idx' = 1
    /\ pc' = "ref_loop"
    /\ UNCHANGED <<areaVars, checked_files, file_content, id_registry,
                   id_violations, calls, exists,
                   moreVars>>

\* one iteration of the loop over self.checked_files
RefCheckFile ==
    /\ pc = "ref_loop"
    /\ idx <= Len(checked_files)
    /\ ref_violations' = RefCheckStep(ref_violations, checked_files[idx],
                                      file_content[checked_files[idx]])
    /\ idx' = idx + 1
    /\ UNCHANGED <<areaVars, checked_files, file_content, id_registry,
                   id_violations, calls, exists, pc,
                   moreVars>>

\* return violations
RefCheckReturn ==
    /\ pc = "ref_loop"
    /\ idx > Len(checked_files)
    /\ pc' = "ref_done"
    /\ UNCHANGED <<areaVars, idVars, refVars,
                   moreVars>>

NextRef == RefCheckBegin \/ RefCheckFile \/ RefCheckReturn

SpecRef == InitRef /\ [][NextRef]_vars

-----------------------------------------------------------------------------
(* Inputs of the Tree Walker: directory trees *)

\* most entries below the root of a scanned tree
MaxNodes == 4

\* most calls of scan_repository_structure on one checker
MaxScans == 2

DirA == <<"a">>
DirSub == <<"s">>
DirVenv == <<"v", "e", "n", "v">>
DirHidden == <<".", "h">>

\* the entries a tree of the pool is made of: a directory a with a file, an
\* excluded directory and a subdirectory in it, each with a file; a hidden
\* directory with a file; a hidden file; an entry that may not be examined;
\* an entry that is neither a file nor a directory
ScanEntries ==
    { [path |-> <<DirA>>, kind |-> "dir"],
      [path |-> <<DirA, <<"f">> \o DotJson>>, kind |-> "file"],
      [path |-> <<DirA, DirVenv>>, kind |-> "dir"],
      [path |-> <<DirA, DirVenv, <<"g">> \o DotPy>>, kind |-> "file"],
      [path |-> <<DirA, DirSub>>, kind |-> "dir"],
      [path |-> <<DirA, DirSub, <<"F", ".", "J", "S", "O", "N">> >>,
       kind |-> "file"],
      [path |-> <<DirA, <<"l">> >>, kind |-> "noaccess"],
      [path |-> <<DirHidden>>, kind |-> "dir"],
      [path |-> <<DirHidden, <<"k">> \o DotMd>>, kind |-> "file"],
      [path |-> << <<".", "e", "n", "v">> >>, kind |-> "file"],
      [path |-> << <<"o">> >>, kind |-> "other"] }

\* every entry of S lies in a directory of S, or in the root
ParentClosed(S) ==
    \A e \in S : Len(e.path) > 1 =>
        \E d \in S : d.kind = "dir" /\ d.path = SubSeq(e.path, 1, Len(e.path) - 1)

\* the subsets of S with at most n elements
RECURSIVE SubsetsUpTo(_, _)
SubsetsUpTo(S, n) ==
    IF n = 0 \/ S = {} THEN {{}}
    ELSE LET x == CHOOSE e \in S : TRUE
         IN  SubsetsUpTo(S \ {x}, n)
             \cup { T \cup {x} : T \in SubsetsUpTo(S \ {x}, n - 1) }

\* the trees over a set of entries: each directory may be listable or not
\* (the root is), everything else has nothing to list
RECURSIVE TreesOver(_)
TreesOver(S) ==
    IF S = {} THEN { {Node(<<>>, "dir", TRUE)} }
    ELSE LET e == CHOOSE x \in S : TRUE
         IN  { t \cup {Node(e.path, e.kind, l)} :
                 t \in TreesOver(S \ {e}),
                 l \in IF e.kind = "dir" THEN BOOLEAN ELSE {TRUE} }

ScanTrees ==
    UNION { TreesOver(S) :
            S \in { T \in SubsetsUpTo(ScanEntries, MaxNodes) : ParentClosed(T) } }

\* the entries a tree with symbolic links is made of: a directory a with a
\* file, a subdirectory and a link to a itself; a link in the subdirectory
\* and a file in it; a link to the root in the root
LinkName == <<"k">>

LinkEntries ==
    { [path |-> <<DirA>>, kind |-> "dir"],
      [path |-> <<DirA, <<"f">> \o DotJson>>, kind |-> "file"],
      [path |-> <<DirA, LinkName>>, kind |-> "link"],
      [path |-> <<DirA, DirSub>>, kind |-> "dir"],
      [path |-> <<DirA, DirSub, LinkName>>, kind |-> "link"],
      [path |-> <<DirA, DirSub, <<"g">> \o DotPy>>, kind |-> "file"],
      [path |-> <<LinkName>>, kind |-> "link"] }

LinkTrees ==
    UNION { TreesOver(S) :
            S \in { T \in SubsetsUpTo(LinkEntries, MaxNodes) :
                      ParentClosed(T) /\ \E e \in T : e.kind = "link" } }

\* the paths of the entries of the directory at path
ChildrenOf(tree, path) ==
    { n.path : n \in { m \in tree : Len(m.path) = Len(path) + 1
                                     /\ SubSeq(m.path, 1, Len(path)) = path } }

\* the orders in which the elements of S can be listed
Perms(S) ==
    { q \in [1..Cardinality(S) -> S] :
        \A i, j \in 1..Cardinality(S) : i # j => q[i] # q[j] }

\* the orders in which the file system can list the directories D of a tree
RECURSIVE OrdersOf(_, _)
OrdersOf(tree, D) ==
    IF D = {} THEN { [x \in {} |-> <<>>] }
    ELSE LET d == CHOOSE x \in D : TRUE
         IN  { (d :> q) @@ f : q \in Perms(ChildrenOf(tree, d)),
                               f \in OrdersOf(tree, D \ {d}) }

DirPaths(tree) == { n.path : n \in { m \in tree : m.kind = "dir" } }

Orders(tree) == OrdersOf(tree, DirPaths(tree))

-----------------------------------------------------------------------------
(* The Tree Walker on its own *)

IdleChecks == IdleArea /\ IdleIdCheck /\ IdleRefCheck /\ IdleRun /\ IdleOther

\* a fresh checker over a tree
InitScan ==
    /\ fs \in ScanTrees
    /\ listing \in Orders(fs)
    /\ structure = EmptyStructure
    /\ prev_structure = EmptyStructure
    /\ scanned_directories = <<>>
    /\ scans = 0
    /\ IdleChecks
    /\ pc = "scan_idle"

\* a call of scan_repository_structure, on its own or as run_all_checks
\* makes it
Scan ==
    /\ pc \in {"scan_idle", "run_loaded"}
    /\ scans < MaxScans
    /\ LET r == ScanRepositoryStructure(fs, listing, scanned_directories,
                                        checked_files)
       IN  /\ scanned_directories' = r.st.dirs
           /\ checked_files' = r.st.checked
           /\ IF r.raised
              THEN /\ pc' = "scan_raised"
                   /\ UNCHANGED <<structure, prev_structure>>
              ELSE /\ pc' = IF pc = "run_loaded" THEN "run_scanned" ELSE pc
                   /\ structure' = StructureOf(r)
                   /\ prev_structure' = structure
    /\ scans' = scans + 1
    /\ UNCHANGED <<areaVars, file_content, id_registry, id_violations, idx,
                   calls, refVars, fs, listing, runVars, otherVars>>

\* between two scans the file system comes to list the same entries in
\* another order: iterdir() promises none
Relist ==
    /\ pc = "scan_idle"
    /\ listing' \in Orders(fs) \ {listing}
    /\ UNCHANGED <<areaVars, idVars, refVars, fs, structure, prev_structure,
                   scanned_directories, scans, runVars, otherVars, pc>>

NextScan == Scan \/ Relist

SpecScan == InitScan /\ [][NextScan]_vars

\* a fresh checker over a tree with symbolic links
InitLink ==
    /\ fs \in LinkTrees
    /\ listing \in Orders(fs)
    /\ structure = EmptyStructure
    /\ prev_structure = EmptyStructure
    /\ scanned_directories = <<>>
    /\ scans = 0
    /\ IdleChecks
    /\ pc = "scan_idle"

SpecLink == InitLink /\ [][NextScan]_vars

-----------------------------------------------------------------------------
(* Inputs of a whole run: a repository with data files, documents and code *)

FileXPy == <<"a", "/">> \o XPy

\* a file the style and language checks have nothing to read in
NoText == Text(<<>>, FALSE, FALSE)

\* a file that opens and is neither JSON nor a document with links
PlainFile == Markdown(<<>>)

\* what is on disk under a path: what the id and reference checks read and
\* what the style and language checks read
OnDisk(c, t) == [c |-> c, t |-> t]

\* the files a repository of the pool is made of, each with the contents it
\* may have.  a/b.json and a/c.json declare the same identifier; a/b.json
\* refers to a/x.py, a/c.json to a file of the inactive area old/; n.md links
\* to a/x.py or to the summary report; a/x.py is clean or breaks all three
\* style rules; README.md is long, with or without an English term.
RunDiskPool(file_info) ==
    IF file_info = FileB
    THEN { OnDisk(JsonDoc(JObj(<<KV("id", JStr(X1)),
                                 KV("path", JStr(RefRel))>>)), NoText),
           OnDisk(Unreadable, NoText), OnDisk(BadUtf8, NoText) }
    ELSE IF file_info = FileC
    THEN { OnDisk(JsonDoc(JObj(<<KV("id", JStr(X1)),
                                 KV("file", JStr(RefOld))>>)), NoText),
           OnDisk(BadJson, NoText) }
    ELSE IF file_info = FileMd
    THEN { OnDisk(Markdown(<<FileXPy>>), NoText),
           OnDisk(Markdown(<<SummaryFile>>), NoText) }
    ELSE IF file_info = FileXPy
    THEN { OnDisk(PlainFile, NoText),
           OnDisk(Unreadable, NoText),
           OnDisk(PlainFile, Text(<<Line(TRUE, TRUE, TRUE),
                                    Line(FALSE, FALSE, TRUE)>>, FALSE, FALSE)) }
    ELSE { OnDisk(PlainFile, Text(<<>>, TRUE, TRUE)),
           OnDisk(PlainFile, Text(<<>>, FALSE, TRUE)) }

\* the files of the pool, as names below the root
RunFiles ==
    { <<DirA, <<"b">> \o DotJson>>, <<DirA, <<"c">> \o DotJson>>,
      <<DirA, XPy>>, <<FileMd>>, <<ReadmeMd>> }

\* the tree that holds the files S: the directory a when a file lies in it,
\* and the directory system/todo, where the checker itself lies
RunTree(S) ==
    { Node(<<>>, "dir", TRUE), Node(<<TodoDir[1]>>, "dir", TRUE),
      Node(TodoDir, "dir", TRUE) }
    \cup { Node(<<DirA>>, "dir", TRUE) : p \in { q \in S : Len(q) = 2 } }
    \cup { Node(p, "file", TRUE) : p \in S }

\* the listing orders of the pool: every order of the directory a, whose
\* files share an identifier, and one order of each other directory
RunOrders(tree) ==
    { f \in Orders(tree) :
        \A d \in DOMAIN f :
            d # <<DirA>> => f[d] = CHOOSE q \in Perms(ChildrenOf(tree, d)) : TRUE }

\* the ways to put a content of its pool under each path of S
RECURSIVE RunDisks(_)
RunDisks(S) ==
    IF S = {} THEN {EmptyMap}
    ELSE LET p == CHOOSE x \in S : TRUE
         IN  { (RelPath(p) :> d) @@ f :
                 d \in RunDiskPool(RelPath(p)), f \in RunDisks(S \ {p}) }

\* the absolute paths of the entries of a tree, and the file system's root
ExistsOf(tree) == { RepoRoot \o n.path : n \in tree } \cup { <<>> }

-----------------------------------------------------------------------------
(* A whole run: main(), run_all_checks, save_results *)

\* RuleChecker(repo_root) in a repository of the pool whose registry document
\* declares the area old/ inactive
InitRun ==
    /\ \E S \in SubsetsUpTo(RunFiles, MaxFiles) :
          /\ fs = RunTree(S)
          /\ \E disk \in RunDisks(S) :
                /\ file_content = [p \in DOMAIN disk |-> disk[p].c]
                /\ file_text = [p \in DOMAIN disk |-> disk[p].t]
    /\ listing \in RunOrders(fs)
    /\ exists = ExistsOf(fs)
    /\ mi_file = [state |-> "valid",
                  content |-> MasterIndex(TRUE, TRUE, "list", <<OldInactive>>)]
    /\ master_index = EmptyDict
    /\ q_path = NoValue
    /\ q_result = Returned("none")
    /\ checked_files = <<>>
    /\ id_registry = EmptyMap
    /\ id_violations = <<>>
    /\ idx = 0
    /\ calls = 0
    /\ ref_violations = <<>>
    /\ structure = EmptyStructure
    /\ prev_structure = EmptyStructure
    /\ scanned_directories = <<>>
    /\ scans = 0
    /\ pep8_violations = <<>>
    /\ language_violations = <<>>
    /\ results = NoResults
    /\ first_run = NoRun
    /\ IdleOther
    /\ pc = "run_init"

\* self.master_index = self.load_master_index()
RunLoadIndex ==
    /\ pc = "run_init"
    /\ master_index' = LoadMasterIndex(mi_file)
    /\ pc' = "run_loaded"
    /\ UNCHANGED <<mi_file, q_path, q_result, idVars, refVars, moreVars>>

\* id_violations = self.check_id_uniqueness()
RunIdCheck ==
    /\ pc = "run_scanned"
    /\ LET st == CheckIdUniqueness(IdState(id_registry, <<>>), checked_files,
                                   1, file_content)
       IN  /\ id_registry' = st.reg
           /\ id_violations' = st.viol
    /\ calls' = calls + 1
    /\ pc' = "run_ids"
    /\ UNCHANGED <<areaVars, checked_files, file_content, idx, refVars,
                   moreVars>>

\* reference_violations = self.check_file_references()
RunRefCheck ==
    /\ pc = "run_ids"
    /\ ref_violations' = CheckFileReferences(<<>>, checked_files, 1,
                                             file_content)
    /\ pc' = "run_refs"
    /\ UNCHANGED <<areaVars, idVars, exists, moreVars>>

\* pep8_violations = self.check_pep8_compliance()
RunPep8Check ==
    /\ pc = "run_refs"
    /\ pep8_violations' = CheckPep8Compliance(<<>>, checked_files, 1,
                                              file_content, file_text)
    /\ pc' = "run_pep8"
    /\ UNCHANGED <<areaVars, idVars, refVars, scanVars, otherVars, file_text,
                   language_violations, results, first_run>>

\* language_violations = self.check_language_compliance()
RunLanguageCheck ==
    /\ pc = "run_pep8"
    /\ language_violations' = CheckLanguageCompliance(<<>>, checked_files, 1,
                                                      file_content, file_text)
    /\ pc' = "run_language"
    /\ UNCHANGED <<areaVars, idVars, refVars, scanVars, otherVars, file_text,
                   pep8_violations, results, first_run>>

\* the rest of run_all_checks: the violations are concatenated and tallied
\* and the results returned
RunCompile ==
    /\ pc = "run_language"
    /\ results' = CompileResults(id_violations, ref_violations,
                                 pep8_violations, language_violations,
                                 checked_files, scanned_directories)
    /\ pc' = IF results'.raised THEN "run_raised" ELSE "run_done"
    /\ UNCHANGED <<areaVars, idVars, refVars, scanVars, otherVars, file_text,
                   pep8_violations, language_violations, first_run>>

\* "rule_check_results.json"
ReportName == BaseName(ReportFile)

\* save_results(results, repo_root / "system" / "todo" /
\* "rule_check_results.json"): both reports are written; a report that was not
\* there before appears somewhere in the listing of its directory; a failure
\* ends the process with status 1
SaveResults ==
    /\ pc = "run_done"
    /\ IF RepoRoot \o TodoDir \in exists
       THEN LET written == { TodoDir \o <<ReportName>>,
                             TodoDir \o <<SummaryName>> }
                tree == fs \cup { Node(p, "file", TRUE) : p \in written }
            IN  /\ fs' = tree
                /\ \E q \in Perms(ChildrenOf(tree, TodoDir)) :
                      /\ \A i, j \in 1..Len(q) :
                            (i < j /\ q[i] \notin written /\ q[j] \notin written)
                            => \E k, l \in 1..Len(listing[TodoDir]) :
                                  /\ k < l
                                  /\ listing[TodoDir][k] = q[i]
                                  /\ listing[TodoDir][l] = q[j]
                      /\ listing' = [listing EXCEPT ![TodoDir] = q]
                /\ file_content' =
                       (ReportFile :> JsonDoc(ReportJson(results.value)))
                       @@ (SummaryFile :>
                             JsonDoc(SummaryReportJson(results.value)))
                       @@ file_content
                /\ file_text' = (ReportFile :> NoText) @@ (SummaryFile :> NoText)
                                @@ file_text
                /\ exists' = exists \cup { RepoRoot \o p : p \in written }
                /\ pc' = "saved"
       ELSE /\ pc' = "exit_1"
            /\ UNCHANGED <<fs, listing, file_content, file_text, exists>>
    /\ UNCHANGED <<areaVars, checked_files, id_registry, id_violations, idx,
                   calls, ref_violations, structure, prev_structure,
                   scanned_directories, scans, pep8_violations,
                   language_violations, results, first_run, otherVars>>

\* the checker is started again: main() makes a new RuleChecker over the tree
\* as the run before left it
NewChecker ==
    /\ pc = "saved"
    /\ ~first_run.done
    /\ first_run' = RunBefore(TRUE, id_violations, ref_violations)
    /\ master_index' = EmptyDict
    /\ checked_files' = <<>>
    /\ scanned_directories' = <<>>
    /\ id_registry' = EmptyMap
    /\ id_violations' = <<>>
    /\ ref_violations' = <<>>
    /\ pep8_violations' = <<>>
    /\ language_violations' = <<>>
    /\ results' = NoResults
    /\ structure' = EmptyStructure
    /\ prev_structure' = EmptyStructure
    /\ scans' = 0
    /\ calls' = 0
    /\ pc' = "run_init"
    /\ UNCHANGED <<mi_file, q_path, q_result, file_content, idx, exists, fs,
                   listing, file_text, otherVars>>

NextRun ==
    \/ RunLoadIndex
    \/ Scan
    \/ RunIdCheck
    \/ RunRefCheck
    \/ RunPep8Check
    \/ RunLanguageCheck
    \/ RunCompile
    \/ SaveResults
    \/ NewChecker

SpecRun == InitRun /\ [][NextRun]_vars

-----------------------------------------------------------------------------
(* Inputs of the area registry updater *)

KeyW == <<"w">>
KeyE == <<"e">>
KeyN == <<"n">>

\* the index file find_index_file finds in a directory
IndexJsonOf(name) == name \o <<"/">> \o <<"i", "n", "d", "e", "x">> \o DotJson

\* the areas an existing master_index.json of the pool lists: entries for the
\* directories w and e, as the updater would write them or with another
\* dir, index or status
IndexAreaPool ==
    { IndexArea(KeyW, KeyW \o <<"/">>, NoValue, "active"),
      IndexArea(KeyW, <<"x", "/">>, IndexJsonOf(KeyW), "inactive"),
      IndexArea(KeyW, KeyW \o <<"/">>, IndexJsonOf(KeyW), "archived"),
      IndexArea(KeyE, KeyE \o <<"/">>, NoValue, "active"),
      IndexArea(KeyE, KeyE \o <<"/">>, IndexJsonOf(KeyE), "inactive") }

\* what scan_repository_directories can find of the directories w and n:
\* each with or without an index file
FoundAreaPool ==
    { FoundArea(k, ix) : k \in {KeyW}, ix \in {NoValue, IndexJsonOf(KeyW)} }
    \cup { FoundArea(k, ix) : k \in {KeyN}, ix \in {NoValue, IndexJsonOf(KeyN)} }

\* found_areas is a dictionary: one entry per directory name, in the order
\* iterdir() listed the directories
FoundAreas ==
    { q \in SeqsUpTo(FoundAreaPool, Cardinality({KeyW, KeyN})) :
        \A i, j \in 1..Len(q) : i # j => q[i].key # q[j].key }

-----------------------------------------------------------------------------
(* The area registry updater on its own: main() of update_master_index.py *)

\* master_index = load_master_index(...); found_areas =
\* scan_repository_directories(repo_root)
InitIndex ==
    /\ IdleArea
    /\ IdleIdCheck
    /\ IdleRefCheck
    /\ IdleScan
    /\ IdleRun
    /\ IdleExtract
    /\ IdleValidator
    /\ ix_index \in SeqsUpTo(IndexAreaPool, MaxAreas)
    /\ ix_found \in FoundAreas
    /\ ix_result = <<>>
    /\ pc = "ix_loaded"

\* updated_master_index = update_master_index(master_index, found_areas,
\* repo_root)
UpdateIndex ==
    /\ pc = "ix_loaded"
    /\ ix_result' = UpdateMasterIndex(ix_index, ix_found)
    /\ pc' = "ix_updated"
    /\ UNCHANGED <<areaVars, idVars, refVars, scanVars, runVars, ix_index,
                   ix_found, extractVars, validatorVars>>

NextIndex == UpdateIndex

SpecIndex == InitIndex /\ [][NextIndex]_vars

-----------------------------------------------------------------------------
(* Inputs of the identifier extraction *)

\* the deepest nesting of the documents of the pool
MaxDepth == 2

ExScalars == { JStr(X1), JInt(7), JBool(TRUE), JFloat, JNull }

\* two identifier keys and a key that is none
ExKeys == { "id", "item_id", "name" }

\* the documents of nesting depth at most d: a scalar, an object with one
\* key, an array of one element, and an object with the keys key and id, in
\* that order, whose first value may be nested
RECURSIVE ExDocs(_)
ExDocs(d) ==
    IF d = 0 THEN ExScalars
    ELSE LET sub == ExDocs(d - 1)
         IN  sub
             \cup { JObj(<<KV(k, v)>>) : k \in ExKeys, v \in sub }
             \cup { JArr(<<v>>) : v \in sub }
             \cup { JObj(<<KV("key", v), KV("id", w)>>) :
                      v \in sub, w \in ExScalars }

-----------------------------------------------------------------------------
(* The identifier extraction on its own *)

\* content = json.load(f)
InitExtract ==
    /\ IdleArea
    /\ IdleIdCheck
    /\ IdleRefCheck
    /\ IdleScan
    /\ IdleRun
    /\ IdleIndex
    /\ IdleValidator
    /\ ex_data \in ExDocs(MaxDepth)
    /\ ex_ids = <<>>
    /\ pc = "ex_loaded"

\* ids_in_file = self._extract_ids_from_json(content, file_info)
ExtractIdsFromJson ==
    /\ pc = "ex_loaded"
    /\ ex_ids' = ExtractIds(ex_data)
    /\ pc' = "ex_returned"
    /\ UNCHANGED <<areaVars, idVars, refVars, scanVars, runVars, indexVars,
                   validatorVars, ex_data>>

NextExtract == ExtractIdsFromJson

SpecExtract == InitExtract /\ [][NextExtract]_vars

-----------------------------------------------------------------------------
(* The modular data validator on its own: every combination of the three
   data files of the pools below *)

\* a faction with every required field and every expected stat
FullFaction(relations) ==
    JObj(<<KV("id", JStr(<<"f">>)), KV("name", JStr(<<"n">>)),
           KV("territory", JArr(<<>>)),
           KV("stats", JObj(<<KV("military_strength", JInt(3)),
                              KV("economic_power", JFloat),
                              KV("territory_control", JInt(1)),
                              KV("population", JInt(2))>>)),
           KV("relations", relations), KV("abilities", JArr(<<>>)),
           KV("type", JStr(<<"t">>))>>)

\* a faction that lacks required fields, carries a narrative field, has a
\* relation out of range and one that is no number, and a stat that is a
\* string
PoorFaction ==
    JObj(<<KV("id", JStr(<<"g">>)), KV("motto", JStr(<<"m">>)),
           KV("stats", JObj(<<KV("military_strength", JStr(<<"s">>)),
                              KV("population", JBool(TRUE))>>)),
           KV("relations", JObj(<<KV("f", JInt(3)), KV("g", JStr(<<"x">>)),
                                  KV("h", JInt(0 - 2))>>))>>)

\* what data/mechanics/factions_core.json can be
MechanicsPool ==
    { DataFile("absent", JNull), DataFile("bad_json", JNull),
      DataFile("io_error", JNull),
      DataFile("ok", JObj(<<>>)),
      DataFile("ok", JObj(<<KV("factions", JArr(<<>>))>>)),
      DataFile("ok", JObj(<<KV("factions",
                     JObj(<<KV("f", FullFaction(JObj(<<>>)))>>))>>)),
      DataFile("ok", JObj(<<KV("factions",
                     JObj(<<KV("g", PoorFaction)>>))>>)),
      DataFile("ok", JObj(<<KV("factions",
                     JObj(<<KV("f", FullFaction(JObj(<<KV("g", JInt(1))>>))),
                            KV("g", PoorFaction)>>))>>)) }

\* a lore module with every recommended field
FullModule(faction_id) ==
    JObj(<<KV("faction_id", faction_id),
           KV("detailed_description", JStr(<<"d">>)),
           KV("founding_story", JStr(<<"s">>)), KV("culture", JStr(<<"c">>)),
           KV("objectives", JArr(<<>>))>>)

\* a lore module that lacks recommended fields and carries a mechanical one
PoorModule(faction_id) ==
    JObj(<<KV("faction_id", faction_id), KV("type", JStr(<<"t">>))>>)

\* what data/lore/factions_narrative.json can be
LorePool ==
    { DataFile("absent", JNull), DataFile("bad_json", JNull),
      DataFile("ok", JObj(<<>>)),
      DataFile("ok", JObj(<<KV("lore_modules", JObj(<<KV("m", JNull)>>))>>)),
      DataFile("ok", JObj(<<KV("lore_modules",
                     JObj(<<KV("m", FullModule(JStr(<<"f">>)))>>))>>)),
      DataFile("ok", JObj(<<KV("lore_modules",
                     JObj(<<KV("m", PoorModule(JStr(<<"x">>))),
                            KV("o", FullModule(JInt(7)))>>))>>)),
      DataFile("ok", JObj(<<KV("lore_modules",
                     JObj(<<KV("m", FullModule(JStr(<<"f">>))),
                            KV("o", PoorModule(JStr(<<"g">>)))>>))>>)) }

\* the module paths a loading config names
ModuleP == <<"p">>
ModuleQ == <<"q">>

\* what data/modules/loading_config.json can be
ConfigPool ==
    { DataFile("absent", JNull), DataFile("bad_json", JNull),
      DataFile("ok", JObj(<<>>)),
      DataFile("ok", JObj(<<KV("load_contexts", JArr(<<>>))>>)),
      DataFile("ok", JObj(<<KV("load_contexts",
                     JObj(<<KV("c", JObj(<<KV("modules",
                              JArr(<<JStr(ModuleP), JStr(ModuleQ)>>))>>)),
                            KV("d", JObj(<<>>))>>))>>)),
      DataFile("ok", JObj(<<KV("load_contexts",
                     JObj(<<KV("c", JObj(<<KV("modules",
                              JArr(<<JStr(ModuleP), JInt(1)>>))>>))>>))>>)) }

\* the data files below the repository root and the module paths that exist
ValidatorTrees ==
    [mechanics : MechanicsPool, lore : LorePool, config : ConfigPool,
     modules : {{}, {ModuleP}, {ModuleP, ModuleQ}}]

InitValidator ==
    /\ IdleArea
    /\ IdleIdCheck
    /\ IdleRefCheck
    /\ IdleScan
    /\ IdleRun
    /\ IdleIndex
    /\ IdleExtract
    /\ mv_tree \in ValidatorTrees
    /\ mv_results = <<>>
    /\ pc = "mv_started"

\* results = validate_modular_structure(repo_root) in main; the sets
\* missing_lore and missing_mechanics are iterated in any order
ValidatorMain ==
    /\ pc = "mv_started"
    /\ \E lore_order \in Perms(MissingLore(mv_tree.mechanics.doc,
                                           mv_tree.lore.doc)),
          mechanics_order \in Perms(MissingMechanics(mv_tree.mechanics.doc,
                                                     mv_tree.lore.doc)) :
          mv_results' = ValidateModularStructure(mv_tree, lore_order,
                                                 mechanics_order)
    /\ pc' = "mv_returned"
    /\ UNCHANGED <<areaVars, idVars, refVars, scanVars, runVars, indexVars,
                   extractVars, mv_tree>>

NextValidator == ValidatorMain

SpecValidator == InitValidator /\ [][NextValidator]_vars

-----------------------------------------------------------------------------
(* The checker as a whole: the oracle, the id check and the reference check
   in the order run_all_checks calls them *)

Init == InitArea \/ InitId \/ InitRef

Next == NextArea \/ NextId \/ NextRef

Spec == Init /\ [][Next]_vars

-----------------------------------------------------------------------------
(* Claims about the Cross-Reference Resolver *)

\* the files the loop of check_file_references has gone through
RefProcessed ==
    IF pc \in {"ref_loop", "ref_done"}
    THEN { checked_files[k] : k \in 1..(idx - 1) }
    ELSE {}

\* the references of the violations of the given type reported for a file,
\* in order
ReportedRefs(file_info, type) ==
    LET mine(v) == v.file = file_info /\ v.type = type
        vs == SelectSeq(ref_violations, mine)
    IN  [i \in 1..Len(vs) |-> vs[i].reference]

BrokenJsonRefs ==
    { v \in Range(ref_violations) : v.type = "broken_file_reference" }

\* C3: the oracle is asked about the reference string as written in the
\* .json file; the broken_file_reference violation is low, with the message
\* suffix, exactly when the oracle answers 'inactive', and high for every
\* other answer.
C3_SeverityFromOracleOnReference ==
    \A v \in BrokenJsonRefs :
        LET r == GetAreaStatus(master_index, v.reference)
        IN  /\ ~r.raised
            /\ v.area_status = r.value
            /\ r.value = "inactive" => v.severity = "low" /\ v.suffix
            /\ r.value # "inactive" => v.severity = "high" /\ ~v.suffix

\* C3 witness: one run reports a low violation for a reference the oracle
\* calls inactive and high ones for answers 'unknown' and 'archived'.
C3_Witness ==
    /\ pc = "ref_done"
    /\ \E v \in BrokenJsonRefs : v.area_status = "inactive" /\ v.severity = "low"
    /\ \E v \in BrokenJsonRefs : v.area_status = "unknown" /\ v.severity = "high"

\* the directory part of a relative path, as text
DirName(file_info) ==
    LET seps == {i \in 1..Len(file_info) : file_info[i] = "/"}
    IN  IF seps = {} THEN <<>>
        ELSE SubSeq(file_info, 1, (CHOOSE i \in seps : \A j \in seps : j <= i) - 1)

\* the first area entry, in registry order, that matches the text is inactive
InInactiveArea(text) ==
    /\ master_index.nonempty /\ master_index.hasAreas
    /\ master_index.areasKind = "list"
    /\ LET m == MatchingEntries(master_index.areas, ExpectedNormal(text))
       IN  /\ m # {}
           /\ master_index.areas[MinOf(m)].hasStatus
           /\ master_index.areas[MinOf(m)].status = "inactive"

\* C4 as stated: a broken reference of a .json file is low when the
\* referencing file lies under a directory whose area entry is inactive, and
\* high in every other case.
C4_SeverityFromAreaOfReferencingFile ==
    \A v \in BrokenJsonRefs :
        v.severity = IF InInactiveArea(DirName(v.file)) THEN "low" ELSE "high"

\* C4 amended: a broken reference of a .json file is low when the reference
\* string itself matches an area entry that is inactive (the first matching
\* entry in registry order), and high in every other case, wherever the
\* referencing file lies.
C4_SeverityFromAreaOfReference ==
    \A v \in BrokenJsonRefs :
        v.severity = IF InInactiveArea(v.reference) THEN "low" ELSE "high"

\* C4 witness: a file under the inactive area a/ gets a high violation, and a
\* file outside every inactive area gets a low one for a reference into the
\* inactive area old/.
C4_Witness ==
    /\ pc = "ref_done"
    /\ \E v \in BrokenJsonRefs :
          \/ /\ InInactiveArea(DirName(v.file))
             /\ ~InInactiveArea(v.reference)
             /\ v.severity = "high"
          \/ /\ ~InInactiveArea(DirName(v.file))
             /\ InInactiveArea(v.reference)
             /\ v.severity = "low"

\* a .json file whose references check_file_references resolves
ResolvedJson(file_info) ==
    LET c == file_content[file_info]
    IN  /\ file_info # ReportFile
        /\ Lower(Suffix(file_info)) = DotJson
        /\ c.rd = "ok" /\ ~(c.template /\ c.slashes) /\ c.parses

\* the path the claim gives a reference of a .json file
ClaimedJsonPath(ref, file_info) ==
    IF IsPrefixOf(<<"/">>, ref)
    THEN RepoRoot \o Segments(LStripSep(ref))
    ELSE RepoRoot \o Segments(DirName(file_info)) \o Segments(ref)

NoPlaceholder(ref) ==
    ~(Contains(ref, <<"{", "{">>) /\ Contains(ref, <<"}", "}">>))

\* the references of a resolved .json file whose claimed path is missing
MissingJsonRefs(file_info) ==
    LET missing(ref) == NoPlaceholder(ref)
                        /\ ClaimedJsonPath(ref, file_info) \notin exists
    IN  SelectSeq(ExtractFileReferences(file_content[file_info].doc), missing)

\* C5: a reference of a .json file that starts with the separator is looked
\* up from the scanned root, leading separators removed, every other one
\* relative to the directory of the referencing file, and a violation is
\* reported exactly for the references whose path so resolved does not exist.
C5_ViolationIffResolvedPathMissing ==
    \A f \in RefProcessed :
        ResolvedJson(f) =>
            ReportedRefs(f, "broken_file_reference") = MissingJsonRefs(f)

\* C5 holds whenever the oracle answers: it is lost only when
\* get_area_status raises in the middle of a file (C10)
C5_ViolationIffResolvedPathMissing_OracleAnswers ==
    (master_index.hasAreas => master_index.areasKind = "list") =>
        C5_ViolationIffResolvedPathMissing

\* a .md file check_file_references reads
ReadMd(file_info) ==
    /\ Lower(Suffix(file_info)) = DotMd
    /\ file_content[file_info].rd = "ok"

ExemptTarget(ref) ==
    IsPrefixOf(Http, ref) \/ IsPrefixOf(Https, ref) \/ IsPrefixOf(<<"#">>, ref)

\* the link targets of a .md file that are missing under the scan root
MissingMdRefs(file_info) ==
    LET missing(ref) == ~ExemptTarget(ref)
                        /\ RepoRoot \o Segments(ref) \notin exists
    IN  SelectSeq(file_content[file_info].links, missing)

\* C6: every link target of a .md file that is no URL and no anchor is looked
\* up relative to the scan root, also one that starts with a separator, and
\* each target missing there gives one broken_markdown_reference violation of
\* severity medium.
C6_MdTargetsResolvedFromRoot ==
    /\ \A f \in RefProcessed :
          ReadMd(f) =>
              ReportedRefs(f, "broken_markdown_reference") = MissingMdRefs(f)
    /\ \A v \in Range(ref_violations) :
          v.type = "broken_markdown_reference" => v.severity = "medium"

\* C6 holds for the targets that do not start with a separator: it is lost
\* only where pathlib takes the target as an absolute path
C6_MdTargetsResolvedFromRoot_RelativeTargets ==
    (\A f \in Range(checked_files) :
        \A i \in 1..Len(file_content[f].links) :
            ~IsPrefixOf(<<"/">>, file_content[f].links[i]))
        => C6_MdTargetsResolvedFromRoot

\* C7: a link target of a .md file that begins with http://, https:// or #
\* never produces a violation.
C7_ExemptTargetsNeverFlagged ==
    \A v \in Range(ref_violations) :
        Lower(Suffix(v.file)) = DotMd => ~ExemptTarget(v.reference)

\* C7 witness: a .md file with an http:// link and one with an anchor have
\* been gone through; neither target exists and neither is reported.
C7_Witness ==
    /\ pc = "ref_done"
    /\ \E f \in RefProcessed :
          /\ ReadMd(f)
          /\ \E i, j \in 1..Len(file_content[f].links) :
                /\ IsPrefixOf(Https, file_content[f].links[i])
                /\ IsPrefixOf(<<"#">>, file_content[f].links[j])
                /\ MdRefPath(file_content[f].links[i]) \notin exists
                /\ MdRefPath(file_content[f].links[j]) \notin exists
          /\ \A v \in Range(ref_violations) :
                v.file = f => \A i \in 1..Len(file_content[f].links) :
                                 ExemptTarget(file_content[f].links[i])
                                    => v.reference # file_content[f].links[i]

\* a .json file whose raw text holds the template marker and '//'
TemplateJson(file_info) ==
    /\ Lower(Suffix(file_info)) = DotJson
    /\ file_content[file_info].rd = "ok"
    /\ file_content[file_info].template
    /\ file_content[file_info].slashes

\* C8: a .json file whose raw text contains both "is_template": true and //
\* is skipped before parsing: no violation names it, whatever it refers to.
C8_TemplateFilesSkipped ==
    \A f \in Range(checked_files) :
        TemplateJson(f) => \A v \in Range(ref_violations) : v.file # f

\* C8 witness: a template file that is valid JSON and holds a reference to a
\* missing file has been gone through, and nothing is reported for it.
C8_Witness ==
    /\ pc = "ref_done"
    /\ \E f \in RefProcessed :
          /\ TemplateJson(f) /\ file_content[f].parses
          /\ MissingJsonRefs(f) # <<>>
          /\ \A v \in Range(ref_violations) : v.file # f

-----------------------------------------------------------------------------
(* Claims about the Tree Walker *)

\* C14: two scans of an unchanged directory tree return the same total_files,
\* total_directories and per-extension counts; only the order of the file
\* list may differ.
C14_RescanSameCounts ==
    scans >= 2 =>
        /\ structure.total_files = prev_structure.total_files
        /\ structure.total_directories = prev_structure.total_directories
        /\ structure.file_types = prev_structure.file_types

\* the part of C14 that holds whatever the listing order: when no entry of
\* the tree raises a permission error on being examined, a rescan returns the
\* same counts, though it may meet the files in another order
C14_RescanSameCounts_NoEntryError ==
    (scans >= 2 /\ \A n \in fs : n.kind # "noaccess") =>
        /\ structure.total_files = prev_structure.total_files
        /\ structure.total_directories = prev_structure.total_directories
        /\ structure.file_types = prev_structure.file_types

\* a directory name the walker is to leave alone
HiddenOrExcluded(name) ==
    \/ name \in ExcludedDirs
    \/ name # <<>> /\ Head(name) = "."

\* some directory on the way to the entry (the entry itself, when it is a
\* directory) is to be left alone
InExcluded(n) ==
    \E k \in 1..Len(n.path) :
        /\ k < Len(n.path) \/ n.kind = "dir"
        /\ HiddenOrExcluded(n.path[k])

\* the paths of a dir_info and of the dir_infos nested in it
RECURSIVE TreePaths(_)
TreePaths(dir_info) ==
    {dir_info.path}
    \cup UNION { TreePaths(dir_info.subdirectories[k]) :
                 k \in DOMAIN dir_info.subdirectories }

\* how often x occurs in the sequence q
CountIn(q, x) == Cardinality({ i \in 1..Len(q) : q[i] = x })

\* the paths of structure["files"]
FilePaths(st) == [i \in 1..Len(st.files) |-> st.files[i].path]

\* the directories a scan may count: those with no excluded or hidden name
\* on their path
CountableDirs == { n \in fs : n.kind = "dir" /\ n.path # <<>> /\ ~InExcluded(n) }

\* C15: the walker never counts or enters a directory whose name is in the
\* excluded set or starts with '.', at any depth: no file under such a
\* directory is in files or checked_files, and the directory is not counted
\* in total_directories, nor in scanned_directories, nor in the directory
\* tree.
C15_ExcludedNeverScanned ==
    scans >= 1 =>
        /\ \A n \in fs :
             InExcluded(n) =>
                /\ CountIn(checked_files, RelPath(n.path)) = 0
                /\ CountIn(FilePaths(structure), RelPath(n.path)) = 0
                /\ CountIn(scanned_directories, RelPath(n.path)) = 0
                /\ RelPath(n.path) \notin TreePaths(structure.directory_tree)
        /\ structure.total_directories <= Cardinality(CountableDirs)

\* C15 witness: a scan went through a directory that holds an excluded
\* directory with a file in it and recorded the file beside it; the excluded
\* directory lies at the second level.
C15_Witness ==
    /\ scans >= 1
    /\ Node(<<DirA, DirVenv, <<"g">> \o DotPy>>, "file", TRUE) \in fs
    /\ CountIn(checked_files, RelPath(<<DirA, <<"f">> \o DotJson>>)) = 1
    /\ structure.total_directories = 1

\* a directory whose listing ends in a permission error: one that may not be
\* listed, or one with an entry that may not be examined
FailsToList(d) ==
    /\ d.kind = "dir"
    /\ \/ ~d.listable
       \/ \E m \in fs : m.kind = "noaccess" /\ Len(m.path) = Len(d.path) + 1
                        /\ SubSeq(m.path, 1, Len(d.path)) = d.path

\* the entry lies in the subtree of a directory whose listing fails
InFailingSubtree(n) ==
    \E d \in fs : /\ FailsToList(d)
                  /\ Len(d.path) < Len(n.path)
                  /\ SubSeq(n.path, 1, Len(d.path)) = d.path

\* the entry lies below a directory that may not be listed
BelowUnlistable(n) ==
    \E d \in fs : /\ d.kind = "dir" /\ ~d.listable
                  /\ Len(d.path) < Len(n.path)
                  /\ SubSeq(n.path, 1, Len(d.path)) = d.path

\* C16: a permission error while listing one directory does not abort the
\* scan: the subtree of that directory is skipped, and every file and
\* directory outside it is visited and recorded exactly as without the error
\* (once, unless an excluded or hidden directory is on its path).
C16_PermissionErrorSkipsSubtree ==
    /\ pc # "scan_raised"
    /\ scans >= 1 =>
         \A n \in fs :
            /\ (n.kind = "file" /\ ~InFailingSubtree(n)) =>
                  /\ CountIn(FilePaths(structure), RelPath(n.path))
                       = IF InExcluded(n) THEN 0 ELSE 1
                  /\ CountIn(checked_files, RelPath(n.path))
                       = IF InExcluded(n) THEN 0 ELSE scans
            /\ (n.kind = "dir" /\ n.path # <<>> /\ ~InFailingSubtree(n)) =>
                  /\ (RelPath(n.path) \in TreePaths(structure.directory_tree))
                       = ~InExcluded(n)
                  /\ CountIn(scanned_directories, RelPath(n.path))
                       = IF InExcluded(n) THEN 0 ELSE scans
            /\ BelowUnlistable(n) =>
                  /\ CountIn(FilePaths(structure), RelPath(n.path)) = 0
                  /\ RelPath(n.path) \notin TreePaths(structure.directory_tree)

\* C16 witness: the directory a/s could not be listed and was listed before
\* the file a/f.json; the file below a/s is missing from the result, a/f.json
\* and both directories are in it.
C16_Witness ==
    /\ scans = 1
    /\ Node(<<DirA, DirSub>>, "dir", FALSE) \in fs
    /\ Node(<<DirA, DirSub, <<"F", ".", "J", "S", "O", "N">> >>, "file", TRUE)
         \in fs
    /\ listing[<<DirA>>] = << <<DirA, DirSub>>, <<DirA, <<"f">> \o DotJson>> >>
    /\ FilePaths(structure) = << RelPath(<<DirA, <<"f">> \o DotJson>>) >>
    /\ scanned_directories = << RelPath(<<DirA>>), RelPath(<<DirA, DirSub>>) >>

-----------------------------------------------------------------------------
(* Claims about the Violation Aggregator *)

\* run_all_checks has returned its results
RunReturned == pc \in {"run_done", "saved"} /\ ~results.raised

\* the four violation lists, concatenated in the order of the checks
AllViolations ==
    id_violations \o ref_violations \o pep8_violations \o language_violations

\* C12: in the results of run_all_checks, compliance_status.overall is 'PASS'
\* if and only if the concatenated violation list (id, reference, style,
\* language) is empty; a single violation of any severity, low included,
\* makes it 'FAIL'.
C12_PassIffNoViolation ==
    RunReturned =>
        /\ results.value.violations = AllViolations
        /\ results.value.compliance_status.overall \in {"PASS", "FAIL"}
        /\ (results.value.compliance_status.overall = "PASS")
             <=> (Len(AllViolations) = 0)

\* C12 witness: a run whose only violation has severity low, and fails.
C12_Witness ==
    /\ RunReturned
    /\ Len(AllViolations) = 1
    /\ AllViolations[1].severity = "low"
    /\ results.value.compliance_status.overall = "FAIL"

\* the rules of the violations of a list
RulesOf(viol) == { viol[i].rule : i \in 1..Len(viol) }

\* the number of violations of a list with the rule and one of the severities
CountOf(viol, rule, sevs) ==
    Cardinality({ i \in 1..Len(viol) :
                    viol[i].rule = rule /\ viol[i].severity \in sevs })

Severities == {"high", "medium", "low"}

\* the sum of the totals of a tally
RECURSIVE SumTotals(_, _)
SumTotals(summary, rules) ==
    IF rules = {} THEN 0
    ELSE LET r == CHOOSE x \in rules : TRUE
         IN  summary[r].total + SumTotals(summary, rules \ {r})

\* C13: the tally of run_all_checks agrees with the violation list: for every
\* rule total = high + medium + low and total is the number of violations
\* with that rule; the totals add up to scan_info.total_violations; the
\* high, medium and low counts of compliance_status add up to
\* total_violations.  Building the tally never fails, since every violation a
\* check emits has a severity among high, medium and low.
C13_TallyConsistent ==
    /\ pc # "run_raised"
    /\ \A i \in 1..Len(AllViolations) : AllViolations[i].severity \in Severities
    /\ RunReturned =>
         LET res == results.value
             summary == res.violation_summary
         IN  /\ DOMAIN summary = RulesOf(res.violations)
             /\ \A r \in DOMAIN summary :
                   /\ summary[r].total
                        = summary[r].high + summary[r].medium + summary[r].low
                   /\ summary[r].total = CountOf(res.violations, r, Severities)
                   /\ \A s \in Severities :
                         summary[r][s] = CountOf(res.violations, r, {s})
             /\ SumTotals(summary, DOMAIN summary)
                  = res.scan_info.total_violations
             /\ res.scan_info.total_violations = Len(res.violations)
             /\ res.compliance_status.high_severity_issues
                  + res.compliance_status.medium_severity_issues
                  + res.compliance_status.low_severity_issues
                  = res.scan_info.total_violations

\* C13 witness: a run with violations of at least three rules and of all three
\* severities, one rule with more than one severity.
C13_Witness ==
    /\ RunReturned
    /\ Cardinality(DOMAIN results.value.violation_summary) >= 3
    /\ results.value.compliance_status.high_severity_issues >= 1
    /\ results.value.compliance_status.medium_severity_issues >= 1
    /\ \E r \in DOMAIN results.value.violation_summary :
          /\ results.value.violation_summary[r].medium >= 1
          /\ results.value.violation_summary[r].low >= 1

-----------------------------------------------------------------------------
(* Claims about runs that follow each other *)

\* the second run has finished its id and reference checks
SecondRunChecked ==
    /\ first_run.done
    /\ pc \in {"run_refs", "run_pep8", "run_language", "run_done", "saved"}

\* C19 as stated: the checker's own report system/todo/rule_check_results.json
\* is skipped by the id check and by the reference check, so a second
\* complete run (a new RuleChecker) over a tree that differs from the first
\* run's tree only by the report files the first run wrote yields the same id
\* and reference violations as the first run.
C19_SecondRunSameViolations ==
    SecondRunChecked =>
        /\ id_violations = first_run.id
        /\ ref_violations = first_run.ref

\* the absolute paths of the two reports save_results writes
ReportPaths ==
    { RepoRoot \o TodoDir \o <<BaseName(ReportFile)>>,
      RepoRoot \o TodoDir \o <<SummaryName>> }

\* the names between the separators of a relative path without empty parts
RECURSIVE NamesOf(_)
NamesOf(p) ==
    IF \E i \in 1..Len(p) : p[i] = "/"
    THEN LET i == MinOf({ j \in 1..Len(p) : p[j] = "/" })
         IN  <<SubSeq(p, 1, i - 1)>> \o NamesOf(SubSeq(p, i + 1, Len(p)))
    ELSE <<p>>

\* a link of a document of the first run's tree that names a report
LinksToReport ==
    \E f \in DOMAIN file_content :
        \E i \in 1..Len(file_content[f].links) :
            RepoRoot \o NamesOf(file_content[f].links[i]) \in ReportPaths

\* C19 amended: the same, for a tree in which no reference points at one of
\* the two report files: a reference to a report that the first run found
\* missing is no longer broken once the first run has written the report.
C19_SecondRunSameViolations_NoLinkToReport ==
    (SecondRunChecked /\ ~LinksToReport) =>
        /\ id_violations = first_run.id
        /\ ref_violations = first_run.ref

\* C19 witness: the first run reported a duplicate identifier and a broken
\* reference, so that its report names an identifier and files; the second
\* run scanned both reports and reports the same violations.
C19_Witness ==
    /\ SecondRunChecked /\ ~LinksToReport
    /\ \E i \in 1..Len(first_run.id) : first_run.id[i].type = "duplicate_id"
    /\ \E i \in 1..Len(first_run.ref) :
          first_run.ref[i].type = "broken_file_reference"
    /\ CountIn(checked_files, ReportFile) = 1
    /\ CountIn(checked_files, SummaryFile) = 1
    /\ id_violations = first_run.id
    /\ ref_violations = first_run.ref

-----------------------------------------------------------------------------
(* Claims about files that cannot be analysed *)

\* the id check and the reference check of a run have returned
BothChecksDone ==
    pc \in {"run_refs", "run_pep8", "run_language", "run_done", "saved"}

\* the same, before save_results has written to the tree the checks read
ChecksDoneTreeAsChecked == BothChecksDone /\ pc # "saved"

\* a scanned .json file whose text is read and is not JSON
InvalidJson(file_info) ==
    /\ IsJsonFile(file_info)
    /\ file_content[file_info].rd = "ok"
    /\ ~file_content[file_info].parses

\* checked_files without the files that are not valid JSON
ValidFiles == SelectSeq(checked_files, LAMBDA f : ~InvalidJson(f))

\* the violations of a list that name a file
NamingFile(viol, file_info) ==
    { i \in 1..Len(viol) : viol[i].file = file_info }

\* C17: a scanned .json file that is not valid JSON (its text does not parse)
\* is silently skipped by check_id_uniqueness and by check_file_references:
\* neither check emits a violation for it, the id registry is left unchanged
\* by it, and the remaining files are processed as if it were absent.
C17_InvalidJsonSkipped ==
    ChecksDoneTreeAsChecked =>
        /\ \A i \in 1..Len(checked_files) :
              InvalidJson(checked_files[i]) =>
                /\ NamingFile(id_violations, checked_files[i]) = {}
                /\ NamingFile(ref_violations, checked_files[i]) = {}
                /\ \A v \in DOMAIN id_registry :
                      id_registry[v] # checked_files[i]
        /\ LET st == CheckIdUniqueness(IdState(EmptyMap, <<>>), ValidFiles, 1,
                                       file_content)
           IN  /\ id_violations = st.viol
               /\ id_registry = st.reg
        /\ ref_violations = CheckFileReferences(<<>>, ValidFiles, 1,
                                                file_content)

\* C17 witness: a/c.json is not valid JSON and comes before a/b.json, which
\* registers its identifier and has a broken reference.
C17_Witness ==
    /\ ChecksDoneTreeAsChecked
    /\ \E i, j \in 1..Len(checked_files) :
          /\ i < j
          /\ checked_files[i] = FileC /\ InvalidJson(FileC)
          /\ checked_files[j] = FileB
    /\ X1 \in DOMAIN id_registry /\ id_registry[X1] = FileB
    /\ NamingFile(ref_violations, FileB) # {}

\* a scanned .json file, other than the report, whose open or read fails
FailsToRead(file_info) ==
    /\ IsJsonFile(file_info)
    /\ file_info # ReportFile
    /\ file_content[file_info].rd # "ok"

\* C18 as stated: an unexpected error (other than a JSON parse failure) while
\* the ids or references of one file are extracted is captured as one
\* low-severity violation naming that file, by check_id_uniqueness and by
\* check_file_references alike; it never propagates, and the later files
\* are still processed.
C18_ErrorIsOneLowViolation ==
    /\ pc # "run_raised"
    /\ BothChecksDone =>
         \A i \in 1..Len(checked_files) :
            FailsToRead(checked_files[i]) =>
              /\ Cardinality(NamingFile(id_violations, checked_files[i])) = 1
              /\ \A k \in NamingFile(id_violations, checked_files[i]) :
                    id_violations[k].severity = "low"
              /\ Cardinality(NamingFile(ref_violations, checked_files[i])) = 1
              /\ \A k \in NamingFile(ref_violations, checked_files[i]) :
                    ref_violations[k].severity = "low"

\* C18, what the code does: check_file_references turns every failure to
\* read into one low-severity file_analysis_error; check_id_uniqueness turns
\* a failure to open or read into one medium-severity file_read_error and
\* skips a file that does not decode without a violation.  No error
\* propagates.
C18_ErrorIsCaptured ==
    /\ pc # "run_raised"
    /\ BothChecksDone =>
         \A i \in 1..Len(checked_files) :
            FailsToRead(checked_files[i]) =>
              LET f == checked_files[i]
                  idv == NamingFile(id_violations, f)
                  refv == NamingFile(ref_violations, f)
              IN  /\ Cardinality(refv) = 1
                  /\ \A k \in refv :
                        /\ ref_violations[k].type = "file_analysis_error"
                        /\ ref_violations[k].severity = "low"
                  /\ file_content[f].rd = "io_error" =>
                        /\ Cardinality(idv) = 1
                        /\ \A k \in idv :
                              /\ id_violations[k].type = "file_read_error"
                              /\ id_violations[k].severity = "medium"
                  /\ file_content[f].rd = "bad_utf8" => idv = {}

-----------------------------------------------------------------------------
(* Claims about the area registry updater *)

\* the scanned entry of a key, if the key is among the scanned directories
ScannedKeys == { ix_found[j].key : j \in 1..Len(ix_found) }

ScannedEntry(key) ==
    ix_found[CHOOSE j \in 1..Len(ix_found) : ix_found[j].key = key]

\* C20 as stated: after update_master_index every existing area whose key is
\* among the scanned directories has dir, index and status equal to the
\* scanned values; every existing area whose key is not among them has status
\* 'inactive'; every scanned directory that had no existing entry is present
\* as an area.  Stated for every existing index, one that lists a key more
\* than once included.
C20_IndexFollowsScan ==
    pc = "ix_updated" =>
        /\ Len(ix_result) >= Len(ix_index)
        /\ \A i \in 1..Len(ix_index) :
              /\ ix_result[i].key = ix_index[i].key
              /\ IF ix_index[i].key \in ScannedKeys
                 THEN LET f == ScannedEntry(ix_index[i].key)
                      IN  /\ ix_result[i].dir = f.dir
                          /\ ix_result[i].index = f.index
                          /\ ix_result[i].status = f.status
                 ELSE ix_result[i].status = "inactive"
        /\ \A j \in 1..Len(ix_found) :
              (\A i \in 1..Len(ix_index) : ix_index[i].key # ix_found[j].key)
                 => \E k \in 1..Len(ix_result) : ix_result[k] = ix_found[j]

\* the existing index lists no key twice
DistinctKeys ==
    \A i, j \in 1..Len(ix_index) : i # j => ix_index[i].key # ix_index[j].key

\* C20 for an existing index whose keys are distinct
C20_IndexFollowsScan_DistinctKeys == DistinctKeys => C20_IndexFollowsScan

-----------------------------------------------------------------------------
(* Claims about the identifier extraction *)

\* the identifier keys, as the claim lists them
ClaimedIdKeys ==
    {"id", "key", "actor_id", "faction_id", "item_id", "event_id", "mission_id"}

\* the string form of a JSON string or JSON integer
StringForm(v) == IF v.t = "str" THEN v.s ELSE IntToStr(v.n)

\* the identifiers of a document: for every object at any depth, the string
\* form of the value of each identifier key whose value is of one of the
\* types, in any order
RECURSIVE IdsOfTypes(_, _)
IdsOfTypes(data, types) ==
    IF data.t \in {"obj", "arr"}
    THEN Flatten([i \in 1..Len(data.kids) |->
                    (IF data.t = "obj" /\ data.kids[i].k \in ClaimedIdKeys
                        /\ data.kids[i].v.t \in types
                     THEN <<IF data.kids[i].v.t = "bool"
                            THEN PyStr(data.kids[i].v)
                            ELSE StringForm(data.kids[i].v)>>
                     ELSE <<>>)
                    \o IdsOfTypes(data.kids[i].v, types)])
    ELSE <<>>

\* two lists hold the same elements the same number of times
SameBag(p, q) ==
    /\ Len(p) = Len(q)
    /\ \A i \in 1..Len(p) :
          Cardinality({ j \in 1..Len(p) : p[j] = p[i] })
            = Cardinality({ j \in 1..Len(q) : q[j] = p[i] })

\* C21 as stated: _extract_ids_from_json returns, for every JSON object at
\* any depth, the value of each identifier key when and only when the value
\* is a JSON string or a JSON integer, coerced to its string form; boolean,
\* float, null, object and array values contribute no identifier, and the
\* descendants of an id-bearing object are still extracted.
C21_ExtractsStringsAndIntegers ==
    pc = "ex_returned" => SameBag(ex_ids, IdsOfTypes(ex_data, {"str", "int"}))

\* C21, what the code does: a JSON boolean is an int to isinstance and
\* contributes "True" or "False"; all else is as claimed.
C21_ExtractsStringsIntegersAndBooleans ==
    pc = "ex_returned" =>
        SameBag(ex_ids, IdsOfTypes(ex_data, {"str", "int", "bool"}))

-----------------------------------------------------------------------------
(* Claims about symbolic links in the tree *)

\* the directories a scan has entered, as sequences of names
EnteredPaths ==
    { NamesOf(scanned_directories[i]) : i \in 1..Len(scanned_directories) }

\* the directories a path passes through, the root included
Prefixes(path) == { SubSeq(path, 1, k) : k \in 0..Len(path) }

\* C22 as stated: the walker does not follow a directory symbolic link that
\* would revisit an ancestor of the directory being scanned, so no directory
\* is entered twice along one path (and the walk terminates on every finite
\* directory structure).
C22_NoDirectoryEnteredTwice ==
    \A p \in EnteredPaths :
        \A q, r \in Prefixes(p) :
            q # r => Resolve(fs, q) # Resolve(fs, r)

\* C22, what the code does: a link to an ancestor is entered like any
\* directory, again and again, until the system refuses to resolve the path;
\* the walk ends there without an error.
C22_WalkEndsAtSymlinkLimit ==
    /\ pc # "scan_raised"
    /\ \A p \in EnteredPaths : LinksIn(fs, p) <= SymlinkLimit
    /\ (scans > 0 /\ Node(<<DirA>>, "dir", TRUE) \in fs
          /\ Node(<<DirA, LinkName>>, "link", TRUE) \in fs)
         => \E p \in EnteredPaths :
               /\ LinksIn(fs, p) = SymlinkLimit
               /\ Resolve(fs, p) = <<DirA>>

-----------------------------------------------------------------------------
(* Claims about the counts of a scan *)

\* the sum of the counts of file_types
RECURSIVE SumCounts(_, _)
SumCounts(file_types, exts) ==
    IF exts = {} THEN 0
    ELSE LET e == CHOOSE x \in exts : TRUE
         IN  file_types[e] + SumCounts(file_types, exts \ {e})

\* the number of nodes below a node of directory_tree
RECURSIVE NodesBelow(_)
RECURSIVE NodesBelowAll(_, _)
NodesBelow(dir_info) ==
    NodesBelowAll(dir_info.subdirectories, DOMAIN dir_info.subdirectories)

NodesBelowAll(subdirectories, names) ==
    IF names = {} THEN 0
    ELSE LET n == CHOOSE x \in names : TRUE
         IN  1 + NodesBelow(subdirectories[n])
             + NodesBelowAll(subdirectories, names \ {n})

\* scan_repository_structure has returned once on a fresh checker
FreshScanDone == scans = 1 /\ pc # "scan_raised"

\* C23: after scan_repository_structure on a fresh RuleChecker the counts
\* agree: total_files = length of files = sum of the file_types counts =
\* length of checked_files, and total_directories = length of
\* scanned_directories = number of non-root nodes of directory_tree; these
\* two lengths are what run_all_checks reports as total_files_checked and
\* total_directories_scanned.
C23_ScanCountsAgree ==
    /\ pc # "scan_raised"
    /\ FreshScanDone =>
         /\ structure.total_files = Len(structure.files)
         /\ structure.total_files
              = SumCounts(structure.file_types, DOMAIN structure.file_types)
         /\ structure.total_files = Len(checked_files)
         /\ structure.total_directories = Len(scanned_directories)
         /\ structure.total_directories = NodesBelow(structure.directory_tree)

\* C23 witness: a fresh scan of a tree with a file in a directory, a
\* directory that cannot be listed and an excluded directory.
C23_Witness ==
    /\ FreshScanDone
    /\ Node(<<DirA, DirSub>>, "dir", FALSE) \in fs
    /\ Node(<<DirA, DirVenv>>, "dir", TRUE) \in fs
    /\ structure.total_files = 1
    /\ structure.total_directories = 2
    /\ NodesBelow(structure.directory_tree) = 2

\* C23, the reported counts: scan_info of run_all_checks carries the scan's
\* total_files and total_directories.
C23_ReportedCountsAgree ==
    RunReturned =>
        /\ results.value.scan_info.total_files_checked = structure.total_files
        /\ results.value.scan_info.total_directories_scanned
             = structure.total_directories

-----------------------------------------------------------------------------
(* Claims about the registry across calls *)

SecondCallDone == pc = "id_done" /\ calls = 2

\* C24: the id registry is state of the RuleChecker and is never cleared: it
\* only grows from step to step, so a second call of check_id_uniqueness on
\* the same checker with unchanged files flags every qualifying identifier
\* occurrence duplicate_id, those that were first and unflagged in the first
\* call included.
C24_RegistryNeverCleared ==
    /\ [](SecondCallDone =>
            FlaggedOccurrences(id_violations)
              = Occurrences(SelectSeq(checked_files, DataJson)))
    /\ [][\A v \in DOMAIN id_registry : v \in DOMAIN id_registry']_vars

\* C24 witness: a second call over two files that declare different
\* identifiers, none of which was flagged by the first call, has flagged both.
C24_Witness ==
    /\ SecondCallDone
    /\ LET occ == Occurrences(SelectSeq(checked_files, DataJson))
       IN  /\ Len(occ) >= 2
           /\ \A i, j \in 1..Len(occ) : i # j => occ[i].id # occ[j].id
           /\ \E i, j \in 1..Len(occ) : occ[i].file # occ[j].file
           /\ FlaggedOccurrences(id_violations) = occ

-----------------------------------------------------------------------------
(* Claims about what the area registry updater keeps *)

\* the keys of the existing index
ExistingKeys == { ix_index[i].key : i \in 1..Len(ix_index) }

\* the scanned directories the existing index does not list, as scanned
NewlyFound ==
    SelectSeq(ix_found, LAMBDA f : f.key \notin ExistingKeys)

\* C27: update_master_index never removes an area and never reorders the
\* existing ones: the resulting list is the existing areas in their order
\* with unchanged keys, followed by exactly the scanned directories whose key
\* was not in the existing index, each once; the number of areas never
\* decreases.
C27_AreasKeptInOrder ==
    pc = "ix_updated" =>
        /\ Len(ix_result) >= Len(ix_index)
        /\ \A i \in 1..Len(ix_index) : ix_result[i].key = ix_index[i].key
        /\ SubSeq(ix_result, Len(ix_index) + 1, Len(ix_result)) = NewlyFound

\* C27 witness: an index of two areas, one of them scanned and one not, and
\* a scan that found a directory the index does not list.
C27_Witness ==
    /\ pc = "ix_updated"
    /\ Len(ix_index) = 2
    /\ ix_index[1].key = KeyE /\ ix_index[2].key = KeyW
    /\ Len(ix_found) = 2
    /\ ix_found[1].key = KeyN /\ ix_found[2].key = KeyW
    /\ Len(ix_result) = 3
    /\ ix_result[1].key = KeyE /\ ix_result[2].key = KeyW
    /\ ix_result[3] = ix_found[1]

-----------------------------------------------------------------------------
(* The result of the modular data validator *)

\* validate_modular_structure has returned
ValidatorReturned == pc = "mv_returned"

\* the elements of a list
FindingsIn(list) == { list[i] : i \in 1..Len(list) }

\* what each sub-validator hands back for the files of the tree; the
\* cross-reference findings are taken in one order, their set is the same in
\* every order
OfMechanics == ValidateMechanicsStructure(mv_tree.mechanics.doc)

OfLore == ValidateLoreStructure(mv_tree.lore.doc)

OfCrossReferences ==
    LET m == mv_tree.mechanics.doc
        l == mv_tree.lore.doc
    IN  ValidateCrossReferences(m, l,
                                CHOOSE o \in Perms(MissingLore(m, l)) : TRUE,
                                CHOOSE o \in Perms(MissingMechanics(m, l)) : TRUE)

OfLoadingConfig == ValidateLoadingConfig(mv_tree.config.doc, mv_tree.modules)

\* the sub-validators that ran: both data files loaded and no earlier step
\* raised
MechanicsRan == mv_tree.mechanics.state = "ok" /\ mv_tree.lore.state = "ok"

LoreRan == MechanicsRan /\ ~OfMechanics.raised

CrossReferencesRan == LoreRan /\ ~OfLore.raised

LoadingConfigRan ==
    /\ CrossReferencesRan
    /\ ~OfCrossReferences.raised
    /\ mv_tree.config.state = "ok"

\* every step of the try block ran to its end
NothingRaised ==
    /\ CrossReferencesRan
    /\ ~OfCrossReferences.raised
    /\ \/ mv_tree.config.state = "absent"
       \/ LoadingConfigRan /\ ~OfLoadingConfig.raised

\* C25: in every result validate_modular_structure returns, valid is true
\* only if the errors list is empty.
C25_ValidOnlyWithoutErrors ==
    ValidatorReturned => (mv_results.valid => mv_results.errors = <<>>)

\* C25, what the code does: valid is false exactly when a data file is
\* missing or fails to load or a step raises; the errors the sub-validators
\* hand back leave it true.
C25_ValidUnlessLoadFails ==
    ValidatorReturned => (mv_results.valid <=> NothingRaised)

\* a result that is valid and lists an error
C25_ValidWithErrors ==
    /\ ValidatorReturned
    /\ mv_results.valid
    /\ mv_results.errors # <<>>

\* the three data files load: the two data files parse, the loading config
\* parses or is absent
FilesLoad ==
    /\ mv_tree.mechanics.state = "ok"
    /\ mv_tree.lore.state = "ok"
    /\ mv_tree.config.state \in {"ok", "absent"}

\* the findings of the sub-validators that ran, and the warning for an
\* absent loading config
ErrorsFound ==
    UNION { IF MechanicsRan THEN FindingsIn(OfMechanics.errors) ELSE {},
            IF LoreRan THEN FindingsIn(OfLore.errors) ELSE {},
            IF CrossReferencesRan THEN FindingsIn(OfCrossReferences.errors)
            ELSE {},
            IF LoadingConfigRan THEN FindingsIn(OfLoadingConfig.errors)
            ELSE {} }

WarningsFound ==
    UNION { IF MechanicsRan THEN FindingsIn(OfMechanics.warnings) ELSE {},
            IF LoreRan THEN FindingsIn(OfLore.warnings) ELSE {},
            IF CrossReferencesRan THEN FindingsIn(OfCrossReferences.warnings)
            ELSE {},
            IF LoadingConfigRan THEN FindingsIn(OfLoadingConfig.warnings)
            ELSE {},
            IF mv_tree.config.state = "absent"
            THEN {Finding("Missing loading config", "", "")} ELSE {} }

\* C26: when the three data files load, the errors and warnings lists of
\* the result contain every error and every warning of each sub-validator
\* that ran, and the warning for an absent loading config.
C26_EveryFindingKept ==
    (ValidatorReturned /\ FilesLoad) =>
        /\ ErrorsFound \subseteq FindingsIn(mv_results.errors)
        /\ WarningsFound \subseteq FindingsIn(mv_results.warnings)

\* the sub-validator whose dictionary was the last to update the result
LastUpdate ==
    IF LoadingConfigRan /\ ~OfLoadingConfig.raised THEN OfLoadingConfig
    ELSE IF CrossReferencesRan /\ ~OfCrossReferences.raised
    THEN OfCrossReferences
    ELSE IF LoreRan /\ ~OfLore.raised THEN OfLore
    ELSE OfMechanics

\* C26, what the code does: once a sub-validator has returned, the lists of
\* the result hold the findings of the last one that returned and nothing of
\* the steps before it; a step that raises adds its error to them.
C26_LastUpdateReplaces ==
    (ValidatorReturned /\ MechanicsRan /\ ~OfMechanics.raised) =>
        /\ FindingsIn(mv_results.warnings) = FindingsIn(LastUpdate.warnings)
        /\ FindingsIn(mv_results.errors) =
              FindingsIn(LastUpdate.errors)
                \cup (IF NothingRaised THEN {}
                      ELSE {Finding(IF mv_tree.config.state = "bad_json"
                                       /\ CrossReferencesRan
                                       /\ ~OfCrossReferences.raised
                                    THEN "JSON parsing error"
                                    ELSE "Validation error", "", "")})

\* findings of the mechanics validator that the result no longer lists
C26_FindingsLost ==
    /\ ValidatorReturned
    /\ FilesLoad
    /\ NothingRaised
    /\ OfMechanics.errors # <<>>
    /\ FindingsIn(OfMechanics.errors) \cap FindingsIn(mv_results.errors) = {}

=============================================================================
